---- MODULE Spec2Model ----
(***************************************************************************)
(* The Maestro flow validator (validateMaestroFlow and its rules) and the  *)
(* editor integration that publishes its results.                          *)
(*                                                                         *)
(* A JavaScript string is a sequence of one-character strings, so that     *)
(* trim(), includes(), length and charCodeAt() are computed on characters. *)
(* An ASCII character is written as itself; a character outside ASCII is   *)
(* one element too, written by its code point, as in "U+00A0".             *)
(* A run of validateMaestroFlow is a chain of states: the call (pc =       *)
(* "start"), the loop over the parsed documents, the per-command rules,    *)
(* the per-sequence rules, and the return (pc = "done").                   *)
(***************************************************************************)
EXTENDS Integers, Sequences, FiniteSets, TLC

VARIABLES
  context,           \* RuleContext: text, uri, lineOffsets
  documents,         \* what YAML.parseAllDocuments returns for context.text
  fsFiles,           \* the paths for which fs.existsSync is true
  pc,                \* position inside validateMaestroFlow
  results,           \* results: ValidationResult[]
  commandSequences,  \* commandSequences: MaestroCommand[][]
  docIdx,            \* documents already processed by the loop of line 149
  cmdIdx,            \* commands already checked by the loop of line 204
  seqIdx,            \* sequences already checked by the loop of line 216
  returned,          \* the earlier calls: their arguments, the disk and the list returned
  handledAssertCommands,  \* the Set of line 219, as the last pass over a sequence left it
  textDocuments,     \* the text documents of the editor: open or closed, text, last event
  diagnosticCollection    \* the extension's DiagnosticCollection: document -> diagnostics

vars == <<context, documents, fsFiles, pc, results, commandSequences,
          docIdx, cmdIdx, seqIdx, returned, handledAssertCommands,
          textDocuments, diagnosticCollection>>

----------------------------------------------------------------------------
(* Bounds of the model.                                                    *)

MaxItems == 3       \* commands in one list of the sequence family
MaxDocs == 2        \* YAML documents in one file of the document family
MaxBlankLen == 2    \* characters of a whitespace-only text
MaxCalls == 3       \* calls of validateMaestroFlow in one behaviour of SpecCalls
MaxRangeLen == 2    \* characters of a text of SpecRanges

----------------------------------------------------------------------------
(* Strings.                                                                *)

tapOn == <<"t", "a", "p", "O", "n">>
assertVisible == <<"a", "s", "s", "e", "r", "t", "V", "i", "s", "i", "b", "l", "e">>
inputText == <<"i", "n", "p", "u", "t", "T", "e", "x", "t">>
conditional == <<"c", "o", "n", "d", "i", "t", "i", "o", "n", "a", "l">>
runFlow == <<"r", "u", "n", "F", "l", "o", "w">>
takeScreenshot == <<"t", "a", "k", "e", "S", "c", "r", "e", "e", "n", "s", "h", "o", "t">>
launchApp == <<"l", "a", "u", "n", "c", "h", "A", "p", "p">>
hideKeyboard == <<"h", "i", "d", "e", "K", "e", "y", "b", "o", "a", "r", "d">>
frobnicate == <<"f", "r", "o", "b", "n", "i", "c", "a", "t", "e">>
commandsKey == <<"c", "o", "m", "m", "a", "n", "d", "s">>
textKey == <<"t", "e", "x", "t">>
idKey == <<"i", "d">>
accessibilityLabelKey == <<"a", "c", "c", "e", "s", "s", "i", "b", "i", "l", "i", "t", "y", "L", "a", "b", "e", "l">>
flowKey == <<"f", "l", "o", "w">>
nameKey == <<"n", "a", "m", "e">>

KNOWN_COMMANDS ==
  { <<"t", "a", "p", "O", "n">>,
    <<"l", "o", "n", "g", "P", "r", "e", "s", "s", "O", "n">>,
    <<"a", "s", "s", "e", "r", "t", "V", "i", "s", "i", "b", "l", "e">>,
    <<"a", "s", "s", "e", "r", "t", "N", "o", "t", "V", "i", "s", "i", "b", "l", "e">>,
    <<"a", "s", "s", "e", "r", "t", "T", "r", "u", "e">>,
    <<"a", "s", "s", "e", "r", "t", "F", "a", "l", "s", "e">>,
    <<"a", "s", "s", "e", "r", "t", "T", "h", "a", "t">>,
    <<"l", "a", "u", "n", "c", "h", "A", "p", "p">>,
    <<"i", "n", "p", "u", "t", "T", "e", "x", "t">>,
    <<"c", "l", "e", "a", "r", "I", "n", "p", "u", "t">>,
    <<"e", "r", "a", "s", "e", "T", "e", "x", "t">>,
    <<"s", "c", "r", "o", "l", "l">>,
    <<"s", "w", "i", "p", "e">>,
    <<"s", "c", "r", "o", "l", "l", "U", "n", "t", "i", "l", "V", "i", "s", "i", "b", "l", "e">>,
    <<"s", "c", "r", "o", "l", "l", "T", "o", "I", "n", "d", "e", "x">>,
    <<"s", "c", "r", "o", "l", "l", "U", "n", "t", "i", "l">>,
    <<"p", "r", "e", "s", "s", "K", "e", "y">>,
    <<"h", "i", "d", "e", "K", "e", "y", "b", "o", "a", "r", "d">>,
    <<"w", "a", "i", "t", "F", "o", "r", "V", "i", "s", "i", "b", "l", "e">>,
    <<"w", "a", "i", "t", "F", "o", "r", "N", "o", "t", "V", "i", "s", "i", "b", "l", "e">>,
    <<"w", "a", "i", "t", "F", "o", "r", "A", "n", "i", "m", "a", "t", "i", "o", "n", "T", "o", "E", "n", "d">>,
    <<"r", "u", "n", "S", "c", "r", "i", "p", "t">>,
    <<"r", "u", "n", "F", "l", "o", "w">>,
    <<"r", "u", "n", "C", "o", "m", "m", "a", "n", "d">>,
    <<"t", "a", "k", "e", "S", "c", "r", "e", "e", "n", "s", "h", "o", "t">>,
    <<"o", "p", "e", "n", "L", "i", "n", "k">>,
    <<"b", "a", "c", "k">>,
    <<"s", "t", "o", "p", "A", "p", "p">>,
    <<"c", "o", "p", "y", "T", "e", "x", "t", "F", "r", "o", "m">>,
    <<"p", "a", "s", "t", "e", "T", "e", "x", "t">>,
    <<"e", "x", "t", "e", "n", "d", "S", "t", "a", "t", "e">>,
    <<"e", "v", "a", "l", "S", "c", "r", "i", "p", "t">>,
    <<"c", "o", "n", "d", "i", "t", "i", "o", "n", "a", "l">>,
    <<"r", "e", "p", "e", "a", "t">> }

\* tapOn is no navigation
NavOrWaitCommandsWithoutTapOn ==
  { <<"s", "c", "r", "o", "l", "l">>,
    <<"s", "w", "i", "p", "e">>,
    <<"s", "c", "r", "o", "l", "l", "U", "n", "t", "i", "l", "V", "i", "s", "i", "b", "l", "e">>,
    <<"s", "c", "r", "o", "l", "l", "T", "o", "I", "n", "d", "e", "x">>,
    <<"s", "c", "r", "o", "l", "l", "U", "n", "t", "i", "l">>,
    <<"l", "a", "u", "n", "c", "h", "A", "p", "p">>,
    <<"r", "u", "n", "F", "l", "o", "w">>,
    <<"o", "p", "e", "n", "L", "i", "n", "k">>,
    <<"b", "a", "c", "k">>,
    <<"p", "r", "e", "s", "s", "K", "e", "y">>,
    <<"w", "a", "i", "t", "F", "o", "r", "V", "i", "s", "i", "b", "l", "e">>,
    <<"w", "a", "i", "t", "F", "o", "r", "N", "o", "t", "V", "i", "s", "i", "b", "l", "e">>,
    <<"w", "a", "i", "t", "F", "o", "r", "A", "n", "i", "m", "a", "t", "i", "o", "n", "T", "o", "E", "n", "d">>,
    <<"r", "e", "p", "e", "a", "t">>,
    <<"c", "o", "n", "d", "i", "t", "i", "o", "n", "a", "l">> }

NAV_OR_WAIT_COMMANDS ==
  { <<"t", "a", "p", "O", "n">>,
    <<"s", "c", "r", "o", "l", "l">>,
    <<"s", "w", "i", "p", "e">>,
    <<"s", "c", "r", "o", "l", "l", "U", "n", "t", "i", "l", "V", "i", "s", "i", "b", "l", "e">>,
    <<"s", "c", "r", "o", "l", "l", "T", "o", "I", "n", "d", "e", "x">>,
    <<"s", "c", "r", "o", "l", "l", "U", "n", "t", "i", "l">>,
    <<"l", "a", "u", "n", "c", "h", "A", "p", "p">>,
    <<"r", "u", "n", "F", "l", "o", "w">>,
    <<"o", "p", "e", "n", "L", "i", "n", "k">>,
    <<"b", "a", "c", "k">>,
    <<"p", "r", "e", "s", "s", "K", "e", "y">>,
    <<"w", "a", "i", "t", "F", "o", "r", "V", "i", "s", "i", "b", "l", "e">>,
    <<"w", "a", "i", "t", "F", "o", "r", "N", "o", "t", "V", "i", "s", "i", "b", "l", "e">>,
    <<"w", "a", "i", "t", "F", "o", "r", "A", "n", "i", "m", "a", "t", "i", "o", "n", "T", "o", "E", "n", "d">>,
    <<"r", "e", "p", "e", "a", "t">>,
    <<"c", "o", "n", "d", "i", "t", "i", "o", "n", "a", "l">> }

\* String.prototype.trim strips the WhiteSpace and LineTerminator characters of
\* ECMAScript from both ends: tab, line feed, U+000B, form feed, carriage return and
\* space, and the ones outside ASCII
WhiteSpace ==
  {"\t", "\n", "", "\f", "\r", " ",
   "U+00A0", "U+1680",
   "U+2000", "U+2001", "U+2002", "U+2003", "U+2004", "U+2005", "U+2006", "U+2007",
   "U+2008", "U+2009", "U+200A",
   "U+2028", "U+2029", "U+202F", "U+205F", "U+3000", "U+FEFF"}

SetMin(S) == CHOOSE x \in S : \A y \in S : x <= y
SetMax(S) == CHOOSE x \in S : \A y \in S : x >= y

Trim(s) ==
  LET kept == {i \in 1..Len(s) : s[i] \notin WhiteSpace}
  IN IF kept = {} THEN <<>> ELSE SubSeq(s, SetMin(kept), SetMax(kept))

\* the text is tested without trim()
IsBlankTextUntrimmed(text) == text = <<>>

\* !text.trim() (line 130)
IsBlankText(text) == Trim(text) = <<>>

\* String.prototype.includes
Includes(s, t) ==
  \E i \in 1..(Len(s) - Len(t) + 1) : SubSeq(s, i, i + Len(t) - 1) = t

\* a JavaScript value held by a scalar node: typeof and, for a string, its characters
StringValue(s) == [type |-> "string", s |-> s]
NumberValue(s) == [type |-> "number", s |-> s]
BooleanValue(s) == [type |-> "boolean", s |-> s]
NullValue == [type |-> "null", s |-> <<>>]
NoValue == [type |-> "undefined", s |-> <<>>]

IsString(v) == v.type = "string"
IsNonBlankString(v) == IsString(v) /\ Len(Trim(v.s)) > 0

----------------------------------------------------------------------------
(* YAML nodes, as the yaml library hands them to the validator.            *)

\* an absent node (undefined / null)
NoNode == [kind |-> "none", value |-> NoValue, items |-> <<>>, range |-> <<>>]

ScalarNode(v, start, end) ==
  [kind |-> "scalar", value |-> v, items |-> <<>>, range |-> <<start, end>>]
MapNode(pairs, start, end) ==
  [kind |-> "map", value |-> NoValue, items |-> pairs, range |-> <<start, end>>]
SeqNode(items, start, end) ==
  [kind |-> "seq", value |-> NoValue, items |-> items, range |-> <<start, end>>]

isScalar(node) == node.kind = "scalar"
isMap(node) == node.kind = "map"
isSeq(node) == node.kind = "seq"
Present(node) == node.kind # "none"

----------------------------------------------------------------------------
(* Position index.                                                         *)

RECURSIVE ScanLineOffsets(_, _, _)
\* the loop of computeLineOffsets from index i on (0-based, as in the code), taken from
\* one line feed to the next: text.charCodeAt(j) === 10 pushes j + 1
ScanLineOffsets(text, i, offsets) ==
  LET feeds == {j \in i..(Len(text) - 1) : text[j + 1] = "\n"}
  IN IF feeds = {} THEN offsets
     ELSE ScanLineOffsets(text, SetMin(feeds) + 1, Append(offsets, SetMin(feeds) + 1))

computeLineOffsets(text) == ScanLineOffsets(text, 0, <<0>>)

Position(line, character) == [line |-> line, character |-> character]
Range(start, end) == [start |-> start, end |-> end]
Max(a, b) == IF a >= b THEN a ELSE b
Min(a, b) == IF a <= b THEN a ELSE b

\* the start of the next line still belongs to the line before it
RECURSIVE SearchLineLate(_, _, _, _)
SearchLineLate(offset, lineOffsets, low, high) ==
  IF low > high
  THEN LET lastLineIndex == Len(lineOffsets) - 1
           lastLineStart == lineOffsets[lastLineIndex + 1]
       IN Position(lastLineIndex, Max(0, offset - lastLineStart))
  ELSE LET mid == (low + high) \div 2
           lineStart == lineOffsets[mid + 1]
           hasNext == mid + 1 < Len(lineOffsets)
       IN IF offset < lineStart
          THEN SearchLineLate(offset, lineOffsets, low, mid - 1)
          ELSE IF hasNext /\ offset > lineOffsets[mid + 2]
               THEN SearchLineLate(offset, lineOffsets, mid + 1, high)
               ELSE Position(mid, offset - lineStart)

offsetToPositionLate(offset, lineOffsets) ==
  IF offset < 0 THEN Position(0, 0)
  ELSE SearchLineLate(offset, lineOffsets, 0, Len(lineOffsets) - 1)

\* the while loop of offsetToPosition; lineOffsets[k] of the code is lineOffsets[k + 1] here
RECURSIVE SearchLine(_, _, _, _)
SearchLine(offset, lineOffsets, low, high) ==
  IF low > high
  THEN LET lastLineIndex == Len(lineOffsets) - 1
           lastLineStart == lineOffsets[lastLineIndex + 1]
       IN Position(lastLineIndex, Max(0, offset - lastLineStart))
  ELSE LET mid == (low + high) \div 2
           lineStart == lineOffsets[mid + 1]
           hasNext == mid + 1 < Len(lineOffsets)
       IN IF offset < lineStart
          THEN SearchLine(offset, lineOffsets, low, mid - 1)
          ELSE IF hasNext /\ offset >= lineOffsets[mid + 2]
               THEN SearchLine(offset, lineOffsets, mid + 1, high)
               ELSE Position(mid, offset - lineStart)

offsetToPosition(offset, lineOffsets) ==
  IF offset < 0 THEN Position(0, 0)
  ELSE SearchLine(offset, lineOffsets, 0, Len(lineOffsets) - 1)

\* the stored range is used as it is
rangeFromNodeUnclamped(node, ctx) ==
  IF Present(node) /\ Len(node.range) >= 2
  THEN Range(offsetToPosition(node.range[1], ctx.lineOffsets),
             offsetToPosition(node.range[2], ctx.lineOffsets))
  ELSE Range(Position(0, 0), Position(0, 0))

rangeFromNode(node, ctx) ==
  IF Present(node) /\ Len(node.range) >= 2
  THEN LET startOffset == Max(0, Min(Len(ctx.text), node.range[1]))
           endOffset == Max(startOffset, Min(Len(ctx.text), node.range[2]))
       IN Range(offsetToPosition(startOffset, ctx.lineOffsets),
                offsetToPosition(endOffset, ctx.lineOffsets))
  ELSE Range(Position(0, 0), Position(0, 0))

----------------------------------------------------------------------------
(* Diagnostics.                                                            *)

\* no command name (commandName undefined)
NoName == <<>>

\* a raw message: the fixed text of a rule, named by id, and the value it interpolates
Raw(id, arg) == [id |-> id, arg |-> arg]

DigitChars == <<"0", "1", "2", "3", "4", "5", "6", "7", "8", "9">>

RECURSIVE Decimal(_)
\* `${line}`: a non-negative number in decimal digits
Decimal(n) ==
  IF n < 10 THEN <<DigitChars[n + 1]>>
  ELSE Decimal(n \div 10) \o <<DigitChars[(n % 10) + 1]>>

\* `${commandName} at line ${line}: ` or `Line ${line}: `
PrefixText(prefix, command, line) ==
  IF prefix = "command"
  THEN command \o <<" ", "a", "t", " ", "l", "i", "n", "e", " ">> \o Decimal(line) \o <<":", " ">>
  ELSE <<"L", "i", "n", "e", " ">> \o Decimal(line) \o <<":", " ">>

\* `${commandName} at line ${line}: ${raw}` or `Line ${line}: ${raw}`
Message(prefix, command, line, raw) ==
  [prefix |-> prefix, prefixText |-> PrefixText(prefix, command, line),
   command |-> command, line |-> line, raw |-> raw.id, arg |-> raw.arg]

\* the line is left 0-based
createResultLineZeroBased(ctx, level, rawMessage, node, commandName) ==
  LET range == rangeFromNode(node, ctx)
      line == range.start.line
  IN [level |-> level,
      message |-> IF commandName # NoName
                  THEN Message("command", commandName, line, rawMessage)
                  ELSE Message("line", NoName, line, rawMessage),
      range |-> range,
      command |-> commandName,
      line |-> line]

\* the prefix never names the command
createResultLinePrefix(ctx, level, rawMessage, node, commandName) ==
  LET range == rangeFromNode(node, ctx)
      line == range.start.line + 1
  IN [level |-> level,
      message |-> Message("line", NoName, line, rawMessage),
      range |-> range,
      command |-> commandName,
      line |-> line]

createResult(ctx, level, rawMessage, node, commandName) ==
  LET range == rangeFromNode(node, ctx)
      line == range.start.line + 1
  IN [level |-> level,
      message |-> IF commandName # NoName
                  THEN Message("command", commandName, line, rawMessage)
                  ELSE Message("line", NoName, line, rawMessage),
      range |-> range,
      command |-> commandName,
      line |-> line]

errorRangeFromYamlError(err, ctx) ==
  IF Len(err.pos) > 0
  THEN LET start == offsetToPosition(err.pos[1], ctx.lineOffsets)
       IN Range(start, start)
  ELSE IF Present(err.source)
       THEN rangeFromNode(err.source, ctx)
       ELSE Range(Position(0, 0), Position(0, 0))

\* the ValidationResult built for one YAMLParseError (lines 152-159)
SyntaxErrorResult(err, ctx) ==
  LET range == errorRangeFromYamlError(err, ctx)
      line == range.start.line + 1
  IN [level |-> "error",
      message |-> Message("line", NoName, line, Raw("YamlParseError", err.message)),
      range |-> range,
      command |-> NoName,
      line |-> line]

----------------------------------------------------------------------------
(* Command extraction.                                                     *)

Command(name, nameNode, valueNode) ==
  [name |-> name, nameNode |-> nameNode, valueNode |-> valueNode]

\* a scalar of any type names a command
CommandsOfItemAnyScalar(item) ==
  IF ~Present(item) THEN <<>>
  ELSE IF isScalar(item)
  THEN IF Len(Trim(item.value.s)) > 0
       THEN <<Command(item.value.s, item, NoNode)>>
       ELSE <<>>
  ELSE IF isMap(item)
  THEN IF Len(item.items) = 0 THEN <<>>
       ELSE LET keyNode == item.items[1].key
                valueNode == item.items[1].value
            IN IF isScalar(keyNode) /\ Len(Trim(keyNode.value.s)) > 0
               THEN <<Command(keyNode.value.s, keyNode, valueNode)>>
               ELSE <<>>
  ELSE <<>>

\* the last pair of a mapping names the command
CommandsOfItemLastPair(item) ==
  IF ~Present(item) THEN <<>>
  ELSE IF isScalar(item)
  THEN IF IsNonBlankString(item.value)
       THEN <<Command(item.value.s, item, NoNode)>>
       ELSE <<>>
  ELSE IF isMap(item)
  THEN IF Len(item.items) = 0 THEN <<>>
       ELSE LET keyNode == item.items[Len(item.items)].key
                valueNode == item.items[Len(item.items)].value
            IN IF isScalar(keyNode) /\ IsNonBlankString(keyNode.value)
               THEN <<Command(keyNode.value.s, keyNode, valueNode)>>
               ELSE <<>>
  ELSE <<>>

\* the commands one item of a YAML sequence contributes (the body of the forEach)
CommandsOfItem(item) ==
  IF ~Present(item) THEN <<>>
  ELSE IF isScalar(item)
  THEN IF IsNonBlankString(item.value)
       THEN <<Command(item.value.s, item, NoNode)>>
       ELSE <<>>
  ELSE IF isMap(item)
  THEN IF Len(item.items) = 0 THEN <<>>
       ELSE LET keyNode == item.items[1].key
                valueNode == item.items[1].value
            IN IF isScalar(keyNode) /\ IsNonBlankString(keyNode.value)
               THEN <<Command(keyNode.value.s, keyNode, valueNode)>>
               ELSE <<>>
  ELSE <<>>

RECURSIVE ExtractFrom(_, _)
ExtractFrom(items, i) ==
  IF i > Len(items) THEN <<>>
  ELSE CommandsOfItem(items[i]) \o ExtractFrom(items, i + 1)

extractCommandsFromSequence(seq) == ExtractFrom(seq.items, 1)

RECURSIVE CollectFromPairs(_, _, _)
\* the sequences list after the loop of collectNestedCommandSequencesFromMap
\* has handled the pairs i.. of the map
CollectFromPairs(pairs, i, sequences) ==
  IF i > Len(pairs) THEN sequences
  ELSE LET keyNode == pairs[i].key
           valueNode == pairs[i].value
           isCommands == /\ isScalar(keyNode)
                         /\ IsString(keyNode.value)
                         /\ keyNode.value.s = commandsKey
                         /\ isSeq(valueNode)
           nested == IF isCommands THEN extractCommandsFromSequence(valueNode) ELSE <<>>
           pushed == IF Len(nested) > 0 THEN Append(sequences, nested) ELSE sequences
           descended == IF isMap(valueNode)
                        THEN CollectFromPairs(valueNode.items, 1, pushed)
                        ELSE pushed
       IN CollectFromPairs(pairs, i + 1, descended)

collectNestedCommandSequencesFromMap(map, sequences) ==
  CollectFromPairs(map.items, 1, sequences)

RECURSIVE FindPair(_, _, _)
FindPair(pairs, key, i) ==
  IF i > Len(pairs) THEN NoNode
  ELSE IF /\ isScalar(pairs[i].key)
          /\ IsString(pairs[i].key.value)
          /\ pairs[i].key.value.s = key
       THEN pairs[i].value
       ELSE FindPair(pairs, key, i + 1)

findMapValueByKey(map, key) == FindPair(map.items, key, 1)

hasAnyStringKey(map, keys) ==
  \E k \in 1..Len(keys) :
    LET valueNode == findMapValueByKey(map, keys[k])
    IN Present(valueNode) /\ isScalar(valueNode) /\ IsNonBlankString(valueNode.value)

extractRunFlowTargetPath(valueNode) ==
  IF isScalar(valueNode) /\ IsString(valueNode.value)
  THEN [found |-> TRUE, path |-> valueNode.value.s]
  ELSE IF isMap(valueNode)
  THEN LET flowNode == findMapValueByKey(valueNode, flowKey)
       IN IF Present(flowNode) /\ isScalar(flowNode) /\ IsString(flowNode.value)
          THEN [found |-> TRUE, path |-> flowNode.value.s]
          ELSE [found |-> FALSE, path |-> <<>>]
  ELSE [found |-> FALSE, path |-> <<>>]

----------------------------------------------------------------------------
(* Paths and the file system (node's path and fs modules, POSIX).          *)

isAbsolute(p) == Len(p) > 0 /\ p[1] = "/"

\* path.dirname: trailing slashes are ignored; the directory ends before the last
\* slash, not the first character, that is followed by a character other than a slash
dirname(p) ==
  LET ends == {i \in 2..Len(p) : p[i] = "/" /\ \E j \in (i + 1)..Len(p) : p[j] # "/"}
  IN IF Len(p) = 0 THEN <<".">>
     ELSE IF ends = {} THEN (IF p[1] = "/" THEN <<"/">> ELSE <<".">>)
     ELSE IF p[1] = "/" /\ SetMax(ends) = 2 THEN <<"/", "/">>
     ELSE SubSeq(p, 1, SetMax(ends) - 1)

RECURSIVE SplitPath(_, _, _)
\* the segments of p between slashes, cur being the segment under construction
SplitPath(p, i, cur) ==
  IF i > Len(p) THEN <<cur>>
  ELSE IF p[i] = "/" THEN <<cur>> \o SplitPath(p, i + 1, <<>>)
  ELSE SplitPath(p, i + 1, Append(cur, p[i]))

RECURSIVE NormalizeSegments(_, _, _)
NormalizeSegments(segs, i, out) ==
  IF i > Len(segs) THEN out
  ELSE IF segs[i] = <<>> \/ segs[i] = <<".">>
  THEN NormalizeSegments(segs, i + 1, out)
  ELSE IF segs[i] = <<".", ".">>
  THEN NormalizeSegments(segs, i + 1,
         IF Len(out) > 0 THEN SubSeq(out, 1, Len(out) - 1) ELSE out)
  ELSE NormalizeSegments(segs, i + 1, Append(out, segs[i]))

RECURSIVE JoinSegments(_, _)
JoinSegments(segs, i) ==
  IF i > Len(segs) THEN <<>>
  ELSE <<"/">> \o segs[i] \o JoinSegments(segs, i + 1)

\* path.resolve(from, to) for an absolute `from`
resolve(from, to) ==
  LET joined == IF isAbsolute(to) THEN to ELSE from \o <<"/">> \o to
      segs == NormalizeSegments(SplitPath(joined, 1, <<>>), 1, <<>>)
  IN IF Len(segs) = 0 THEN <<"/">> ELSE JoinSegments(segs, 1)

existsSync(p) == p \in fsFiles

----------------------------------------------------------------------------
(* Per-command rules.                                                      *)

\* a blank string is taken as a selector
validateTapOnSelectorAcceptsBlank(command, ctx) ==
  IF command.name # tapOn THEN <<>>
  ELSE LET valueNode == command.valueNode
       IN IF ~Present(valueNode)
          THEN <<createResult(ctx, "error", Raw("TapOnWithoutSelector", <<>>),
                              command.nameNode, command.name)>>
          ELSE IF isScalar(valueNode)
          THEN IF IsString(valueNode.value)
               THEN <<>>
               ELSE <<createResult(ctx, "error", Raw("TapOnEmptyTextSelector", <<>>),
                                   valueNode, command.name)>>
          ELSE IF isMap(valueNode)
          THEN IF ~hasAnyStringKey(valueNode, <<textKey, idKey, accessibilityLabelKey>>)
               THEN <<createResult(ctx, "error", Raw("TapOnWithoutSelectorKey", <<>>),
                                   command.nameNode, command.name)>>
               ELSE <<>>
          ELSE <<createResult(ctx, "error", Raw("TapOnUnsupportedValue", <<>>),
                              valueNode, command.name)>>

validateTapOnSelector(command, ctx) ==
  IF command.name # tapOn THEN <<>>
  ELSE LET valueNode == command.valueNode
       IN IF ~Present(valueNode)
          THEN <<createResult(ctx, "error", Raw("TapOnWithoutSelector", <<>>),
                              command.nameNode, command.name)>>
          ELSE IF isScalar(valueNode)
          THEN IF IsNonBlankString(valueNode.value)
               THEN <<>>
               ELSE <<createResult(ctx, "error", Raw("TapOnEmptyTextSelector", <<>>),
                                   valueNode, command.name)>>
          ELSE IF isMap(valueNode)
          THEN IF ~hasAnyStringKey(valueNode, <<textKey, idKey, accessibilityLabelKey>>)
               THEN <<createResult(ctx, "error", Raw("TapOnWithoutSelectorKey", <<>>),
                                   command.nameNode, command.name)>>
               ELSE <<>>
          ELSE <<createResult(ctx, "error", Raw("TapOnUnsupportedValue", <<>>),
                              valueNode, command.name)>>

\* an empty or blank string is rejected
validateInputTextValueNonBlank(command, ctx) ==
  IF command.name # inputText THEN <<>>
  ELSE LET valueNode == command.valueNode
       IN IF ~Present(valueNode)
          THEN <<createResult(ctx, "error", Raw("InputTextRequiresValue", <<>>),
                              command.nameNode, command.name)>>
          ELSE IF isScalar(valueNode)
          THEN IF IsNonBlankString(valueNode.value)
               THEN <<>>
               ELSE <<createResult(ctx, "error", Raw("InputTextMustBeString", <<>>),
                                   valueNode, command.name)>>
          ELSE IF isMap(valueNode)
          THEN LET textNode == findMapValueByKey(valueNode, textKey)
               IN IF Present(textNode) /\ isScalar(textNode) /\ IsString(textNode.value)
                  THEN <<>>
                  ELSE <<createResult(ctx, "error", Raw("InputTextObjectWithoutText", <<>>),
                                      valueNode, command.name)>>
          ELSE <<createResult(ctx, "error", Raw("InputTextUnsupportedValue", <<>>),
                              valueNode, command.name)>>

validateInputTextValue(command, ctx) ==
  IF command.name # inputText THEN <<>>
  ELSE LET valueNode == command.valueNode
       IN IF ~Present(valueNode)
          THEN <<createResult(ctx, "error", Raw("InputTextRequiresValue", <<>>),
                              command.nameNode, command.name)>>
          ELSE IF isScalar(valueNode)
          THEN IF IsString(valueNode.value)
               THEN <<>>
               ELSE <<createResult(ctx, "error", Raw("InputTextMustBeString", <<>>),
                                   valueNode, command.name)>>
          ELSE IF isMap(valueNode)
          THEN LET textNode == findMapValueByKey(valueNode, textKey)
               IN IF Present(textNode) /\ isScalar(textNode) /\ IsString(textNode.value)
                  THEN <<>>
                  ELSE <<createResult(ctx, "error", Raw("InputTextObjectWithoutText", <<>>),
                                      valueNode, command.name)>>
          ELSE <<createResult(ctx, "error", Raw("InputTextUnsupportedValue", <<>>),
                              valueNode, command.name)>>

\* an empty list of commands is accepted
validateConditionalHasCommandsAcceptsEmpty(command, ctx) ==
  IF command.name # conditional THEN <<>>
  ELSE LET valueNode == command.valueNode
       IN IF ~Present(valueNode) \/ ~isMap(valueNode)
          THEN <<createResult(ctx, "error", Raw("ConditionalMustBeObject", <<>>),
                              command.nameNode, command.name)>>
          ELSE LET commandsNode == findMapValueByKey(valueNode, commandsKey)
               IN IF \/ ~Present(commandsNode)
                     \/ ~isSeq(commandsNode)
                  THEN <<createResult(ctx, "error", Raw("ConditionalWithoutCommands", <<>>),
                                      command.nameNode, command.name)>>
                  ELSE <<>>

validateConditionalHasCommands(command, ctx) ==
  IF command.name # conditional THEN <<>>
  ELSE LET valueNode == command.valueNode
       IN IF ~Present(valueNode) \/ ~isMap(valueNode)
          THEN <<createResult(ctx, "error", Raw("ConditionalMustBeObject", <<>>),
                              command.nameNode, command.name)>>
          ELSE LET commandsNode == findMapValueByKey(valueNode, commandsKey)
               IN IF \/ ~Present(commandsNode)
                     \/ ~isSeq(commandsNode)
                     \/ Len(commandsNode.items) = 0
                  THEN <<createResult(ctx, "error", Raw("ConditionalWithoutCommands", <<>>),
                                      command.nameNode, command.name)>>
                  ELSE <<>>

\* a path with a variable is looked up like any other
validateRunFlowFileExistsNoDynamicSkip(command, ctx) ==
  IF command.name # runFlow THEN <<>>
  ELSE IF ctx.uri.scheme # "file" THEN <<>>
  ELSE LET valueNode == command.valueNode
       IN IF ~Present(valueNode) THEN <<>>
          ELSE LET target == extractRunFlowTargetPath(valueNode)
               IN IF ~target.found \/ target.path = <<>> THEN <<>>
                  ELSE LET targetPath == target.path
                           documentDir == dirname(ctx.uri.fsPath)
                           resolvedPath == IF isAbsolute(targetPath)
                                           THEN targetPath
                                           ELSE resolve(documentDir, targetPath)
                       IN IF ~existsSync(resolvedPath)
                          THEN <<createResult(ctx, "error",
                                              Raw("RunFlowFileDoesNotExist", targetPath),
                                              valueNode, command.name)>>
                          ELSE <<>>

\* the disk is probed whatever the scheme of the uri is
validateRunFlowFileExistsAnyScheme(command, ctx) ==
  IF command.name # runFlow THEN <<>>
  ELSE LET valueNode == command.valueNode
       IN IF ~Present(valueNode) THEN <<>>
          ELSE LET target == extractRunFlowTargetPath(valueNode)
               IN \* !targetPath: no target, or the empty string
                  IF ~target.found \/ target.path = <<>> THEN <<>>
                  ELSE IF Includes(target.path, <<"$", "{">>) THEN <<>>
                  ELSE LET targetPath == target.path
                           documentDir == dirname(ctx.uri.fsPath)
                           resolvedPath == IF isAbsolute(targetPath)
                                           THEN targetPath
                                           ELSE resolve(documentDir, targetPath)
                       IN IF ~existsSync(resolvedPath)
                          THEN <<createResult(ctx, "error",
                                              Raw("RunFlowFileDoesNotExist", targetPath),
                                              valueNode, command.name)>>
                          ELSE <<>>

validateRunFlowFileExists(command, ctx) ==
  IF command.name # runFlow THEN <<>>
  ELSE IF ctx.uri.scheme # "file" THEN <<>>
  ELSE LET valueNode == command.valueNode
       IN IF ~Present(valueNode) THEN <<>>
          ELSE LET target == extractRunFlowTargetPath(valueNode)
               IN \* !targetPath: no target, or the empty string
                  IF ~target.found \/ target.path = <<>> THEN <<>>
                  ELSE IF Includes(target.path, <<"$", "{">>) THEN <<>>
                  ELSE LET targetPath == target.path
                           documentDir == dirname(ctx.uri.fsPath)
                           resolvedPath == IF isAbsolute(targetPath)
                                           THEN targetPath
                                           ELSE resolve(documentDir, targetPath)
                       IN IF ~existsSync(resolvedPath)
                          THEN <<createResult(ctx, "error",
                                              Raw("RunFlowFileDoesNotExist", targetPath),
                                              valueNode, command.name)>>
                          ELSE <<>>

\* the lookup is made in the other vocabulary
validateUnknownCommandNameOtherSet(command, ctx) ==
  IF command.name \in NAV_OR_WAIT_COMMANDS THEN <<>>
  ELSE <<createResult(ctx, "error", Raw("UnknownCommand", command.name),
                      command.nameNode, command.name)>>

validateUnknownCommandName(command, ctx) ==
  IF command.name \in KNOWN_COMMANDS THEN <<>>
  ELSE <<createResult(ctx, "error", Raw("UnknownCommand", command.name),
                      command.nameNode, command.name)>>

\* the rule looks at a command of any name
validateTakeScreenshotHasNameAnyCommand(command, ctx) ==
  IF ~Present(command.valueNode)
  THEN <<createResult(ctx, "warning", Raw("TakeScreenshotWithoutName", <<>>),
                      command.nameNode, command.name)>>
  ELSE <<>>

\* the findings are errors
validateTakeScreenshotHasNameAsError(command, ctx) ==
  IF command.name # takeScreenshot THEN <<>>
  ELSE LET valueNode == command.valueNode
       IN IF ~Present(valueNode)
          THEN <<createResult(ctx, "error", Raw("TakeScreenshotWithoutName", <<>>),
                              command.nameNode, command.name)>>
          ELSE IF isScalar(valueNode)
          THEN IF IsNonBlankString(valueNode.value)
               THEN <<>>
               ELSE <<createResult(ctx, "error", Raw("TakeScreenshotNameString", <<>>),
                                   valueNode, command.name)>>
          ELSE IF isMap(valueNode)
          THEN LET nameNode == findMapValueByKey(valueNode, nameKey)
               IN IF /\ Present(nameNode)
                     /\ isScalar(nameNode)
                     /\ IsNonBlankString(nameNode.value)
                  THEN <<>>
                  ELSE <<createResult(ctx, "error", Raw("TakeScreenshotObjectWithoutName", <<>>),
                                      valueNode, command.name)>>
          ELSE <<createResult(ctx, "error", Raw("TakeScreenshotUnexpectedValue", <<>>),
                              valueNode, command.name)>>

validateTakeScreenshotHasName(command, ctx) ==
  IF command.name # takeScreenshot THEN <<>>
  ELSE LET valueNode == command.valueNode
       IN IF ~Present(valueNode)
          THEN <<createResult(ctx, "warning", Raw("TakeScreenshotWithoutName", <<>>),
                              command.nameNode, command.name)>>
          ELSE IF isScalar(valueNode)
          THEN IF IsNonBlankString(valueNode.value)
               THEN <<>>
               ELSE <<createResult(ctx, "warning", Raw("TakeScreenshotNameString", <<>>),
                                   valueNode, command.name)>>
          ELSE IF isMap(valueNode)
          THEN LET nameNode == findMapValueByKey(valueNode, nameKey)
               IN IF /\ Present(nameNode)
                     /\ isScalar(nameNode)
                     /\ IsNonBlankString(nameNode.value)
                  THEN <<>>
                  ELSE <<createResult(ctx, "warning", Raw("TakeScreenshotObjectWithoutName", <<>>),
                                      valueNode, command.name)>>
          ELSE <<createResult(ctx, "warning", Raw("TakeScreenshotUnexpectedValue", <<>>),
                              valueNode, command.name)>>

\* the six rules applied to one command, in the order of lines 206-211
CommandFindings(command, ctx) ==
  validateTapOnSelector(command, ctx)
    \o validateInputTextValue(command, ctx)
    \o validateConditionalHasCommands(command, ctx)
    \o validateRunFlowFileExists(command, ctx)
    \o validateUnknownCommandName(command, ctx)
    \o validateTakeScreenshotHasName(command, ctx)

----------------------------------------------------------------------------
(* Per-sequence rules.  A command object is identified by its index in the *)
(* sequence that holds it, so a Set<MaestroCommand> is a set of indexes.   *)

\* a ?? b
FirstPresent(a, b) == IF Present(a) THEN a ELSE b

\* the warning is put on the tapOn
WarnedNodeOfPairCurrent(current, next) == FirstPresent(current.nameNode, next.nameNode)

\* next.nameNode ?? current.nameNode (line 689)
WarnedNodeOfPair(current, next) == FirstPresent(next.nameNode, current.nameNode)

RECURSIVE TapThenAssert(_, _, _, _)
\* the loop of validateAssertVisibleImmediatelyAfterTapOn from index i (1-based) on
TapThenAssert(sequence, ctx, i, acc) ==
  IF i > Len(sequence) - 1 THEN acc
  ELSE LET current == sequence[i]
           next == sequence[i + 1]
       IN IF current.name = tapOn /\ next.name = assertVisible
          THEN TapThenAssert(sequence, ctx, i + 1,
                 [results |-> Append(acc.results,
                     createResult(ctx, "warning",
                                  Raw("AssertVisibleImmediatelyAfterTapOn", <<>>),
                                  WarnedNodeOfPair(current, next), next.name)),
                  handledAsserts |-> acc.handledAsserts \cup {i + 1}])
          ELSE TapThenAssert(sequence, ctx, i + 1, acc)

\* returns the findings and the handledAsserts set as the call leaves it
validateAssertVisibleImmediatelyAfterTapOn(sequence, ctx, handledAsserts) ==
  TapThenAssert(sequence, ctx, 1, [results |-> <<>>, handledAsserts |-> handledAsserts])

\* no earlier command counts
HasNavOrWaitBeforeNever(sequence, i) == FALSE

\* only the command directly before is looked at
HasNavOrWaitBeforeDirectly(sequence, i) ==
  i > 1 /\ sequence[i - 1].name \in NAV_OR_WAIT_COMMANDS

\* the inner loop over j = i-1 .. 0 (i is 1-based here)
HasNavOrWaitBefore(sequence, i) ==
  \E j \in 1..(i - 1) : sequence[j].name \in NAV_OR_WAIT_COMMANDS

RECURSIVE PriorNavScan(_, _, _, _)
PriorNavScan(sequence, ctx, handledAsserts, i) ==
  IF i > Len(sequence) THEN <<>>
  ELSE LET cmd == sequence[i]
           here == IF cmd.name # assertVisible THEN <<>>
                   ELSE IF i \in handledAsserts THEN <<>>
                   ELSE IF ~HasNavOrWaitBefore(sequence, i)
                   THEN <<createResult(ctx, "warning",
                                       Raw("AssertVisibleWithoutPriorNavigationOrWait", <<>>),
                                       cmd.nameNode, cmd.name)>>
                   ELSE <<>>
       IN here \o PriorNavScan(sequence, ctx, handledAsserts, i + 1)

validateAssertVisibleHasPriorNavigationOrWait(sequence, ctx, handledAsserts) ==
  PriorNavScan(sequence, ctx, handledAsserts, 1)

\* the arguments are compared too
IsSameActionWithArguments(current, next) ==
  /\ current.name = next.name
  /\ current.valueNode.kind = next.valueNode.kind
  /\ current.valueNode.value = next.valueNode.value

\* current.name === next.name (line 764)
IsSameAction(current, next) == current.name = next.name

RECURSIVE DuplicateScan(_, _, _)
DuplicateScan(sequence, ctx, i) ==
  IF i > Len(sequence) - 1 THEN <<>>
  ELSE LET current == sequence[i]
           next == sequence[i + 1]
           here == IF IsSameAction(current, next)
                   THEN <<createResult(ctx, "warning",
                                       Raw("DuplicateSequentialAction", next.name),
                                       FirstPresent(next.nameNode, current.nameNode),
                                       next.name)>>
                   ELSE <<>>
       IN here \o DuplicateScan(sequence, ctx, i + 1)

validateDuplicateSequentialActions(sequence, ctx) == DuplicateScan(sequence, ctx, 1)

\* the duplicates are reported before the assertVisible findings
SequenceFindingsDuplicatesFirst(sequence, ctx, handled) ==
  LET first == validateAssertVisibleImmediatelyAfterTapOn(sequence, ctx, handled)
  IN [results |-> validateDuplicateSequentialActions(sequence, ctx)
                    \o first.results
                    \o validateAssertVisibleHasPriorNavigationOrWait(
                         sequence, ctx, first.handledAsserts),
      handledAsserts |-> first.handledAsserts]

\* one iteration of the loop of lines 216-236: the three rules, given the handled set
SequenceFindings(sequence, ctx, handled) ==
  LET first == validateAssertVisibleImmediatelyAfterTapOn(sequence, ctx, handled)
  IN [results |-> first.results
                    \o validateAssertVisibleHasPriorNavigationOrWait(
                         sequence, ctx, first.handledAsserts)
                    \o validateDuplicateSequentialActions(sequence, ctx),
      handledAsserts |-> first.handledAsserts]

RECURSIVE Flat(_, _)
Flat(sequences, i) ==
  IF i > Len(sequences) THEN <<>> ELSE sequences[i] \o Flat(sequences, i + 1)

\* commandSequences.flat()
allCommands == Flat(commandSequences, 1)

----------------------------------------------------------------------------
(* The YAML texts of the model and their parse.  An input file is given as *)
(* a list of document shapes; FileText writes it out as text and           *)
(* FileDocuments gives the documents YAML.parseAllDocuments returns for    *)
(* that text: every node with its [start, end) offsets, and one            *)
(* YAMLParseError per duplicate map key (the parser keeps the pair and     *)
(* reports the key's offset).                                              *)
(* A command item is written `- name` or `- name: value`; values below an  *)
(* item are written in flow style (`{k: v}`, `[a, b]`), so one item is one *)
(* line; documents are separated by `---` lines.                           *)

NoShape == [kind |-> "none", value |-> NoValue, src |-> <<>>, items |-> <<>>]
Plain(s) == [kind |-> "scalar", value |-> StringValue(s), src |-> s, items |-> <<>>]
Quoted(s) ==
  [kind |-> "scalar", value |-> StringValue(s),
   src |-> <<"\"">> \o s \o <<"\"">>, items |-> <<>>]
Number42 ==
  [kind |-> "scalar", value |-> NumberValue(<<"4", "2">>), src |-> <<"4", "2">>, items |-> <<>>]
BooleanTrue ==
  [kind |-> "scalar", value |-> BooleanValue(<<"t", "r", "u", "e">>), src |-> <<"t", "r", "u", "e">>, items |-> <<>>]
Null == [kind |-> "scalar", value |-> NullValue, src |-> <<"~">>, items |-> <<>>]
FlowMap(pairs) == [kind |-> "map", value |-> NoValue, src |-> <<>>, items |-> pairs]
FlowSeq(items) == [kind |-> "seq", value |-> NoValue, src |-> <<>>, items |-> items]
Pair(k, v) == [key |-> k, value |-> v]
HasValue(pair) == pair.value.kind # "none"

FlowSep == <<",", " ">>
Lead(i, sep) == IF i > 1 THEN sep ELSE <<>>

\* --- the text of a shape
RECURSIVE SrcOf(_), PairsSrc(_, _, _), ItemsSrc(_, _)

PairsSrc(pairs, i, sep) ==
  IF i > Len(pairs) THEN <<>>
  ELSE Lead(i, sep) \o SrcOf(pairs[i].key)
         \o (IF HasValue(pairs[i]) THEN <<":", " ">> \o SrcOf(pairs[i].value) ELSE <<>>)
         \o PairsSrc(pairs, i + 1, sep)

ItemsSrc(items, i) ==
  IF i > Len(items) THEN <<>>
  ELSE Lead(i, FlowSep) \o SrcOf(items[i]) \o ItemsSrc(items, i + 1)

SrcOf(sh) ==
  IF sh.kind = "scalar" THEN sh.src
  ELSE IF sh.kind = "map" THEN <<"{">> \o PairsSrc(sh.items, 1, FlowSep) \o <<"}">>
  ELSE <<"[">> \o ItemsSrc(sh.items, 1) \o <<"]">>

\* the offset of the key of pair i of a map whose first key is at offset base
KeyOffset(pairs, i, base, sep) ==
  base + Len(PairsSrc(SubSeq(pairs, 1, i - 1), 1, sep)) + Len(Lead(i, sep))
ValueOffset(pairs, i, base, sep) ==
  KeyOffset(pairs, i, base, sep) + Len(SrcOf(pairs[i].key)) + 2
\* the offset of item i of a flow sequence whose first item is at offset base
ItemOffset(items, i, base) ==
  base + Len(ItemsSrc(SubSeq(items, 1, i - 1), 1)) + Len(Lead(i, FlowSep))

\* --- the node a shape written at offset off is parsed into
RECURSIVE NodeOf(_, _), PairNodes(_, _, _, _), ItemNodes(_, _, _)

PairNodes(pairs, i, base, sep) ==
  IF i > Len(pairs) THEN <<>>
  ELSE <<[key |-> NodeOf(pairs[i].key, KeyOffset(pairs, i, base, sep)),
          value |-> IF HasValue(pairs[i])
                    THEN NodeOf(pairs[i].value, ValueOffset(pairs, i, base, sep))
                    ELSE NoNode]>>
         \o PairNodes(pairs, i + 1, base, sep)

ItemNodes(items, i, base) ==
  IF i > Len(items) THEN <<>>
  ELSE <<NodeOf(items[i], ItemOffset(items, i, base))>> \o ItemNodes(items, i + 1, base)

NodeOf(sh, off) ==
  IF sh.kind = "scalar" THEN ScalarNode(sh.value, off, off + Len(sh.src))
  ELSE IF sh.kind = "map"
  THEN MapNode(PairNodes(sh.items, 1, off + 1, FlowSep), off, off + Len(SrcOf(sh)))
  ELSE SeqNode(ItemNodes(sh.items, 1, off + 1), off, off + Len(SrcOf(sh)))

\* --- the parse errors of a shape written at offset off
DuplicateKeyError(offset) ==
  [pos |-> <<offset, offset + 1>>, source |-> NoNode,
   message |-> <<"Map keys must be unique">>]

IsDuplicateKey(pairs, i) ==
  /\ pairs[i].key.kind = "scalar"
  /\ \E j \in 1..(i - 1) :
       pairs[j].key.kind = "scalar" /\ pairs[j].key.value = pairs[i].key.value

RECURSIVE ErrorsOf(_, _), PairErrors(_, _, _, _), ItemErrors(_, _, _)

PairErrors(pairs, i, base, sep) ==
  IF i > Len(pairs) THEN <<>>
  ELSE ErrorsOf(pairs[i].key, KeyOffset(pairs, i, base, sep))
         \o (IF IsDuplicateKey(pairs, i)
             THEN <<DuplicateKeyError(KeyOffset(pairs, i, base, sep))>>
             ELSE <<>>)
         \o (IF HasValue(pairs[i])
             THEN ErrorsOf(pairs[i].value, ValueOffset(pairs, i, base, sep))
             ELSE <<>>)
         \o PairErrors(pairs, i + 1, base, sep)

ItemErrors(items, i, base) ==
  IF i > Len(items) THEN <<>>
  ELSE ErrorsOf(items[i], ItemOffset(items, i, base)) \o ItemErrors(items, i + 1, base)

ErrorsOf(sh, off) ==
  IF sh.kind = "scalar" THEN <<>>
  ELSE IF sh.kind = "map" THEN PairErrors(sh.items, 1, off + 1, FlowSep)
  ELSE ItemErrors(sh.items, 1, off + 1)

\* --- one item of a block sequence, written after its `- `: a one-pair mapping is
\* written `key: value`, or `? key` when the pair has no value
IsBlockPair(sh) == sh.kind = "map" /\ Len(sh.items) = 1

BlockItemSrc(sh) ==
  IF IsBlockPair(sh)
  THEN IF HasValue(sh.items[1])
       THEN PairsSrc(sh.items, 1, <<>>)
       ELSE <<"?", " ">> \o SrcOf(sh.items[1].key)
  ELSE SrcOf(sh)

BlockItemNode(sh, off) ==
  IF IsBlockPair(sh)
  THEN IF HasValue(sh.items[1])
       THEN MapNode(PairNodes(sh.items, 1, off, <<>>), off, off + Len(BlockItemSrc(sh)))
       ELSE MapNode(<<[key |-> NodeOf(sh.items[1].key, off + 2), value |-> NoNode]>>,
                    off, off + Len(BlockItemSrc(sh)))
  ELSE NodeOf(sh, off)

BlockItemErrors(sh, off) ==
  IF IsBlockPair(sh)
  THEN IF HasValue(sh.items[1])
       THEN PairErrors(sh.items, 1, off, <<>>)
       ELSE ErrorsOf(sh.items[1].key, off + 2)
  ELSE ErrorsOf(sh, off)

RECURSIVE BlockSeqSrc(_, _)
BlockSeqSrc(items, i) ==
  IF i > Len(items) THEN <<>>
  ELSE <<"-", " ">> \o BlockItemSrc(items[i]) \o <<"\n">> \o BlockSeqSrc(items, i + 1)

\* the offset of item i of a block sequence that starts at offset base
BlockItemOffset(items, i, base) == base + Len(BlockSeqSrc(SubSeq(items, 1, i - 1), 1)) + 2

RECURSIVE BlockSeqNodes(_, _, _)
BlockSeqNodes(items, i, base) ==
  IF i > Len(items) THEN <<>>
  ELSE <<BlockItemNode(items[i], BlockItemOffset(items, i, base))>>
         \o BlockSeqNodes(items, i + 1, base)

RECURSIVE BlockSeqErrors(_, _, _)
BlockSeqErrors(items, i, base) ==
  IF i > Len(items) THEN <<>>
  ELSE BlockItemErrors(items[i], BlockItemOffset(items, i, base))
         \o BlockSeqErrors(items, i + 1, base)

\* --- documents
SeqDoc(items) == [root |-> "seq", items |-> items]
MapDoc(pairs) == [root |-> "map", items |-> pairs]
ScalarDoc(sh) == [root |-> "scalar", items |-> <<sh>>]
EmptyDoc == [root |-> "empty", items |-> <<>>]

DocSrc(doc) ==
  IF doc.root = "seq" THEN BlockSeqSrc(doc.items, 1)
  ELSE IF doc.root = "map" THEN PairsSrc(doc.items, 1, <<"\n">>) \o <<"\n">>
  ELSE IF doc.root = "scalar" THEN SrcOf(doc.items[1]) \o <<"\n">>
  ELSE <<>>

\* the Document (errors, contents) of a document written at offset off
DocumentAt(doc, off) ==
  IF doc.root = "seq"
  THEN [errors |-> BlockSeqErrors(doc.items, 1, off),
        contents |-> SeqNode(BlockSeqNodes(doc.items, 1, off), off, off + Len(DocSrc(doc)))]
  ELSE IF doc.root = "map"
  THEN [errors |-> PairErrors(doc.items, 1, off, <<"\n">>),
        contents |-> MapNode(PairNodes(doc.items, 1, off, <<"\n">>),
                             off, off + Len(DocSrc(doc)) - 1)]
  ELSE IF doc.root = "scalar"
  THEN [errors |-> <<>>, contents |-> NodeOf(doc.items[1], off)]
  ELSE [errors |-> <<>>, contents |-> ScalarNode(NullValue, off, off)]

\* a `---` line starts every document but a first one that has content
Marker(docs, i) == IF i > 1 \/ docs[i].root = "empty" THEN <<"-", "-", "-", "\n">> ELSE <<>>

RECURSIVE DocsText(_, _)
DocsText(docs, i) ==
  IF i > Len(docs) THEN <<>>
  ELSE Marker(docs, i) \o DocSrc(docs[i]) \o DocsText(docs, i + 1)

\* the text of a file; a file of comments only has no document
FileText(docs) == IF Len(docs) = 0 THEN <<"#", " ", "f", "l", "o", "w", "\n">> ELSE DocsText(docs, 1)

\* the offset at which the content of document i starts
DocOffset(docs, i) == Len(DocsText(SubSeq(docs, 1, i - 1), 1)) + Len(Marker(docs, i))

RECURSIVE DocumentsFrom(_, _)
DocumentsFrom(docs, i) ==
  IF i > Len(docs) THEN <<>>
  ELSE <<DocumentAt(docs[i], DocOffset(docs, i))>> \o DocumentsFrom(docs, i + 1)

\* what YAML.parseAllDocuments(FileText(docs)) returns
FileDocuments(docs) == DocumentsFrom(docs, 1)

----------------------------------------------------------------------------
(* The inputs of the model.                                                *)

Item(name, value) == FlowMap(<<Pair(Plain(name), value)>>)
Bare(name) == Plain(name)

\* the commands the lists of the sequence family are made of
SeqItems ==
  { Item(tapOn, Plain(<<"a">>)),          \* - tapOn: a
    Bare(tapOn),                       \* - tapOn
    Item(assertVisible, Plain(<<"a">>)),  \* - assertVisible: a
    Bare(launchApp),                   \* - launchApp
    Bare(hideKeyboard),                \* - hideKeyboard
    Item(frobnicate, Number42) }       \* - frobnicate: 42

RECURSIVE SeqsUpTo(_, _)
\* the sequences over S of length 0..n
SeqsUpTo(S, n) ==
  IF n = 0 THEN {<<>>}
  ELSE LET shorter == SeqsUpTo(S, n - 1)
       IN shorter \cup {Append(s, x) : s \in {t \in shorter : Len(t) = n - 1}, x \in S}

NonEmptySeqsUpTo(S, n) == SeqsUpTo(S, n) \ {<<>>}

\* one document, one list of 1..MaxItems commands
SequenceFiles == {<<SeqDoc(items)>> : items \in NonEmptySeqsUpTo(SeqItems, MaxItems)}

ShapeNames ==
  {tapOn, inputText, conditional, runFlow, takeScreenshot, frobnicate, hideKeyboard,
   <<"T", "a", "p", "O", "n">>}

\* the values a command is given in the shape family
ShapeValues ==
  { Plain(<<"a">>), Quoted(<<>>), Quoted(<<" ">>), Number42, BooleanTrue, Null,
    FlowMap(<<>>),
    FlowMap(<<Pair(Plain(textKey), Plain(<<"a">>))>>),
    FlowMap(<<Pair(Plain(textKey), Quoted(<<>>))>>),
    FlowMap(<<Pair(Plain(textKey), Quoted(<<" ">>))>>),
    FlowMap(<<Pair(Plain(textKey), Number42)>>),
    FlowMap(<<Pair(Plain(textKey), NoShape)>>),
    FlowMap(<<Pair(Plain(idKey), Plain(<<"a">>))>>),
    FlowMap(<<Pair(Plain(accessibilityLabelKey), Plain(<<"a">>))>>),
    FlowMap(<<Pair(Plain(textKey), Quoted(<<" ">>)), Pair(Plain(idKey), Plain(<<"a">>))>>),
    FlowMap(<<Pair(Plain(<<"x">>), Plain(<<"a">>))>>),
    FlowMap(<<Pair(Plain(nameKey), Plain(<<"a">>))>>),
    FlowMap(<<Pair(Plain(nameKey), Quoted(<<" ">>))>>),
    FlowMap(<<Pair(Plain(flowKey), Number42)>>),
    FlowMap(<<Pair(Plain(commandsKey), FlowSeq(<<Plain(launchApp)>>))>>),
    FlowMap(<<Pair(Plain(<<"w", "h", "e", "n">>), Plain(<<"a">>)),
              Pair(Plain(commandsKey), FlowSeq(<<Plain(launchApp)>>))>>),
    FlowMap(<<Pair(Plain(commandsKey), FlowSeq(<<>>))>>),
    FlowMap(<<Pair(Plain(commandsKey), Plain(<<"a">>))>>),
    FlowSeq(<<Plain(<<"a">>)>>) }

\* the items of the shape family: `- name`, `- ? name`, `- name: value`
ShapeItems ==
  {Bare(n) : n \in ShapeNames}
    \cup {Item(n, NoShape) : n \in ShapeNames}
    \cup {Item(n, v) : n \in ShapeNames, v \in ShapeValues}

\* one document, a list of one command
ShapeFiles == {<<SeqDoc(<<i>>)>> : i \in ShapeItems}

\* the targets a runFlow command is given
RunFlowTargets ==
  { <<"s", ".", "y", "a", "m", "l">>, <<".", "/", "s", ".", "y", "a", "m", "l">>, <<".", ".", "/", "s", ".", "y", "a", "m", "l">>, <<"/", "x", "/", "s", ".", "y", "a", "m", "l">>, <<"$", "{", "D", "}", "/", "s", ".", "y", "a", "m", "l">>, <<"n", ".", "y", "a", "m", "l">> }

\* a target inside { }: a plain scalar ends at a flow indicator there, so a target
\* that holds one is written in double quotes
FlowScalar(t) ==
  IF \E i \in 1..Len(t) : t[i] \in {",", "[", "]", "{", "}"} THEN Quoted(t) ELSE Plain(t)

RunFlowItems ==
  {Item(runFlow, Plain(t)) : t \in RunFlowTargets}
    \cup {Item(runFlow, FlowMap(<<Pair(Plain(flowKey), FlowScalar(t))>>)) :
            t \in RunFlowTargets}
    \cup { Item(runFlow, Quoted(<<>>)),
           Item(runFlow, FlowMap(<<Pair(Plain(flowKey), Quoted(<<>>))>>)),
           Item(runFlow, FlowMap(<<Pair(Plain(<<"f", "i", "l", "e">>), Plain(<<"n", ".", "y", "a", "m", "l">>))>>)),
           Item(runFlow, Number42),
           Bare(runFlow) }

RunFlowFiles == {<<SeqDoc(<<i>>)>> : i \in RunFlowItems}

\* the documents the files of the document family are made of
DocCatalog ==
  { MapDoc(<<Pair(Plain(<<"a", "p", "p", "I", "d">>), Plain(<<"x">>))>>),
    MapDoc(<<Pair(Plain(<<"a", "p", "p", "I", "d">>), Plain(<<"x">>)), Pair(Plain(<<"a", "p", "p", "I", "d">>), Plain(<<"y">>))>>),
    MapDoc(<<Pair(Plain(<<"a", "p", "p", "I", "d">>), Plain(<<"x">>)),
             Pair(Plain(commandsKey),
                  FlowSeq(<<Plain(tapOn), Item(assertVisible, Plain(<<"a">>))>>))>>),
    MapDoc(<<Pair(Plain(<<"o", "n", "F", "l", "o", "w", "S", "t", "a", "r", "t">>),
                  FlowMap(<<Pair(Plain(commandsKey),
                                 FlowSeq(<<Item(assertVisible, Plain(<<"a">>))>>))>>))>>),
    MapDoc(<<Pair(Plain(<<"s", "t", "e", "p", "s">>),
                  FlowSeq(<<FlowMap(<<Pair(Plain(commandsKey),
                                           FlowSeq(<<Plain(frobnicate)>>))>>)>>))>>),
    MapDoc(<<Pair(Plain(commandsKey), FlowSeq(<<>>))>>),
    ScalarDoc(Plain(<<"h", "e", "l", "l", "o">>)),
    EmptyDoc,
    SeqDoc(<<Bare(launchApp)>>),
    SeqDoc(<<Item(assertVisible, Plain(<<"a">>)), Item(assertVisible, Plain(<<"b">>))>>),
    SeqDoc(<<Item(tapOn, Plain(<<"a">>)),
             Item(conditional,
                  FlowMap(<<Pair(Plain(commandsKey),
                                 FlowSeq(<<Plain(tapOn),
                                           Item(assertVisible, Plain(<<"a">>))>>))>>))>>),
    SeqDoc(<<Item(<<"r", "e", "p", "e", "a", "t">>,
                  FlowMap(<<Pair(Plain(<<"t", "i", "m", "e", "s">>), Number42),
                            Pair(Plain(commandsKey),
                                 FlowSeq(<<Item(assertVisible, Plain(<<"a">>)),
                                           Item(assertVisible, Plain(<<"b">>))>>))>>))>>),
    SeqDoc(<<Number42, Quoted(<<" ">>), FlowMap(<<>>),
             FlowMap(<<Pair(Number42, Plain(<<"a">>)), Pair(Plain(tapOn), Plain(<<"b">>))>>),
             FlowMap(<<Pair(FlowSeq(<<Plain(tapOn)>>), Plain(<<"a">>))>>),
             FlowSeq(<<Plain(tapOn)>>),
             FlowMap(<<Pair(Plain(launchApp), Plain(<<"a">>)), Pair(Plain(frobnicate), Plain(<<"b">>))>>),
             Bare(hideKeyboard)>>),
    SeqDoc(<<Item(assertVisible, Plain(<<"a">>)), Bare(tapOn),
             FlowMap(<<Pair(Plain(assertVisible), Plain(<<"a">>)),
                       Pair(Plain(assertVisible), Plain(<<"b">>))>>),
             Item(assertVisible, Plain(<<"c">>))>>),
    SeqDoc(<<Bare(hideKeyboard),
             FlowMap(<<Pair(Plain(tapOn), Plain(<<"a">>)), Pair(Plain(tapOn), Plain(<<"b">>))>>)>>),
    SeqDoc(<<Number42, BooleanTrue, Null,
             FlowMap(<<Pair(Number42, Plain(<<"a">>))>>),
             FlowMap(<<Pair(BooleanTrue, Plain(tapOn))>>)>>) }

\* 0..MaxDocs documents of the catalog
DocumentFiles == SeqsUpTo(DocCatalog, MaxDocs)

\* whitespace-only texts
BlankTexts == SeqsUpTo({" ", "\n", "\t", "\f"}, MaxBlankLen)

FileUri == [scheme |-> "file", fsPath |-> <<"/", "w", "/", "f", "/", "m", "a", "i", "n", ".", "y", "a", "m", "l">>]
UntitledUri == [scheme |-> "untitled", fsPath |-> <<"U", "n", "t", "i", "t", "l", "e", "d", "-", "1">>]

\* the paths that may exist on disk
PathUniverse == {<<"/", "w", "/", "f">>, <<"/", "w", "/", "f", "/", "s", ".", "y", "a", "m", "l">>, <<"/", "w", "/", "s", ".", "y", "a", "m", "l">>, <<"/", "x", "/", "s", ".", "y", "a", "m", "l">>}

Input(text, docs, uri, fs) == [text |-> text, documents |-> docs, uri |-> uri, fs |-> fs]

FileInput(file, uri, fs) == Input(FileText(file), FileDocuments(file), uri, fs)

Inputs ==
  {Input(t, <<>>, u, {}) : t \in BlankTexts, u \in {FileUri, UntitledUri}}
    \cup {FileInput(f, FileUri, PathUniverse) :
            f \in SequenceFiles \cup ShapeFiles \cup DocumentFiles}
    \cup {FileInput(f, u, fs) :
            f \in RunFlowFiles, u \in {FileUri, UntitledUri}, fs \in SUBSET PathUniverse}

----------------------------------------------------------------------------
(* validateMaestroFlow.                                                    *)

\* the list of the earlier call is still there
CallResultsKept(previous) == previous

\* line 128: every call starts with results = []
CallResults(previous) == <<>>

\* the call: the arguments, the context built from them (lines 122-126), results = []
Init ==
  \E in \in Inputs :
    /\ context = [text |-> in.text, uri |-> in.uri,
                  lineOffsets |-> computeLineOffsets(in.text)]
    /\ documents = in.documents
    /\ fsFiles = in.fs
    /\ pc = "start"
    /\ results = CallResults(<<>>)
    /\ commandSequences = <<>>
    /\ docIdx = 0
    /\ cmdIdx = 0
    /\ seqIdx = 0
    /\ returned = <<>>
    /\ handledAssertCommands = {}
    /\ textDocuments = <<>>
    /\ diagnosticCollection = <<>>

\* lines 130-142: a blank text is reported and nothing else runs
EmptyFlow ==
  /\ pc = "start"
  /\ IsBlankText(context.text)
  /\ results' = Append(results,
                  createResult(context, "error", Raw("EmptyFlow", <<>>), NoNode, NoName))
  /\ pc' = "done"
  /\ UNCHANGED <<context, documents, fsFiles, commandSequences, docIdx, cmdIdx, seqIdx, returned, textDocuments, diagnosticCollection, handledAssertCommands>>

\* line 144: the text is parsed
ParseAllDocuments ==
  /\ pc = "start"
  /\ ~IsBlankText(context.text)
  /\ pc' = IF Len(documents) = 0 THEN "collected" ELSE "documents"
  /\ UNCHANGED <<context, documents, fsFiles, results, commandSequences,
                 docIdx, cmdIdx, seqIdx, returned, textDocuments, diagnosticCollection, handledAssertCommands>>

RECURSIVE SyntaxErrorResults(_, _, _)
SyntaxErrorResults(errors, ctx, i) ==
  IF i > Len(errors) THEN <<>>
  ELSE <<SyntaxErrorResult(errors[i], ctx)>> \o SyntaxErrorResults(errors, ctx, i + 1)

\* lines 162-184: the sequences after the document with this root has been searched
SequencesWithRoot(root, sequences) ==
  IF ~Present(root) THEN sequences
  ELSE IF isSeq(root)
  THEN LET commands == extractCommandsFromSequence(root)
       IN IF Len(commands) > 0 THEN Append(sequences, commands) ELSE sequences
  ELSE IF isMap(root)
  THEN collectNestedCommandSequencesFromMap(root, sequences)
  ELSE sequences

\* a document with parse errors is not searched for commands
ProcessDocumentSkipsBroken ==
  /\ pc = "documents"
  /\ docIdx < Len(documents)
  /\ LET doc == documents[docIdx + 1]
     IN /\ results' = results \o SyntaxErrorResults(doc.errors, context, 1)
        /\ commandSequences' = IF Len(doc.errors) > 0
                                THEN commandSequences
                                ELSE SequencesWithRoot(doc.contents, commandSequences)
  /\ docIdx' = docIdx + 1
  /\ pc' = IF docIdx + 1 = Len(documents) THEN "collected" ELSE "documents"
  /\ UNCHANGED <<context, documents, fsFiles, cmdIdx, seqIdx, returned, textDocuments, diagnosticCollection, handledAssertCommands>>

\* one iteration of the loop of lines 149-185
ProcessDocument ==
  /\ pc = "documents"
  /\ docIdx < Len(documents)
  /\ LET doc == documents[docIdx + 1]
     IN /\ results' = results \o SyntaxErrorResults(doc.errors, context, 1)
        /\ commandSequences' = SequencesWithRoot(doc.contents, commandSequences)
  /\ docIdx' = docIdx + 1
  /\ pc' = IF docIdx + 1 = Len(documents) THEN "collected" ELSE "documents"
  /\ UNCHANGED <<context, documents, fsFiles, cmdIdx, seqIdx, returned, textDocuments, diagnosticCollection, handledAssertCommands>>

\* the message of the blank text is used
NoCommandsFoundSameMessage ==
  /\ pc = "collected"
  /\ Len(allCommands) = 0
  /\ results' = Append(results,
                  createResult(context, "error", Raw("EmptyFlow", <<>>), NoNode, NoName))
  /\ pc' = "done"
  /\ UNCHANGED <<context, documents, fsFiles, commandSequences, docIdx, cmdIdx, seqIdx, returned, textDocuments, diagnosticCollection, handledAssertCommands>>

\* lines 190-201: no command anywhere
NoCommandsFound ==
  /\ pc = "collected"
  /\ Len(allCommands) = 0
  /\ results' = Append(results,
                  createResult(context, "error", Raw("NoCommandsFound", <<>>), NoNode, NoName))
  /\ pc' = "done"
  /\ UNCHANGED <<context, documents, fsFiles, commandSequences, docIdx, cmdIdx, seqIdx, returned, textDocuments, diagnosticCollection, handledAssertCommands>>

StartRules ==
  /\ pc = "collected"
  /\ Len(allCommands) > 0
  /\ pc' = "commands"
  /\ UNCHANGED <<context, documents, fsFiles, results, commandSequences,
                 docIdx, cmdIdx, seqIdx, returned, textDocuments, diagnosticCollection, handledAssertCommands>>

\* one iteration of the loop of lines 204-213
CheckCommand ==
  /\ pc = "commands"
  /\ cmdIdx < Len(allCommands)
  /\ results' = results \o CommandFindings(allCommands[cmdIdx + 1], context)
  /\ cmdIdx' = cmdIdx + 1
  /\ pc' = IF cmdIdx + 1 = Len(allCommands) THEN "sequences" ELSE "commands"
  /\ UNCHANGED <<context, documents, fsFiles, commandSequences, docIdx, seqIdx, returned, textDocuments, diagnosticCollection, handledAssertCommands>>

\* one iteration of the loop of lines 216-236, and the return after the last one
\* the set of the earlier pass is used again
NewHandledSetKept(previous) == previous

\* line 219: every pass over a sequence starts with new Set<MaestroCommand>()
NewHandledSet(previous) == {}

CheckSequence ==
  /\ pc = "sequences"
  /\ seqIdx < Len(commandSequences)
  /\ LET found == SequenceFindings(commandSequences[seqIdx + 1], context,
                               NewHandledSet(handledAssertCommands))
     IN /\ results' = results \o found.results
        /\ handledAssertCommands' = found.handledAsserts
  /\ seqIdx' = seqIdx + 1
  /\ pc' = IF seqIdx + 1 = Len(commandSequences) THEN "done" ELSE "sequences"
  /\ UNCHANGED <<context, documents, fsFiles, commandSequences, docIdx, cmdIdx, returned, textDocuments, diagnosticCollection>>

Next ==
  \/ EmptyFlow
  \/ ParseAllDocuments
  \/ ProcessDocument
  \/ NoCommandsFound
  \/ StartRules
  \/ CheckCommand
  \/ CheckSequence

Spec == Init /\ [][Next]_vars

----------------------------------------------------------------------------
(* Several calls, as the extension makes them on every open and change.    *)

\* the files the calls of SpecCalls are made with
CallFiles ==
  { <<MapDoc(<<Pair(Plain(<<"a", "p", "p", "I", "d">>), Plain(<<"x">>)), Pair(Plain(<<"a", "p", "p", "I", "d">>), Plain(<<"y">>))>>)>>,
    <<SeqDoc(<<Item(runFlow, Plain(<<"/", "x", "/", "s", ".", "y", "a", "m", "l">>)),
               Item(runFlow, FlowMap(<<Pair(Plain(flowKey), Plain(<<".", ".", "/", "s", ".", "y", "a", "m", "l">>))>>))>>)>>,
    <<SeqDoc(<<Item(assertVisible, Plain(<<"a">>)), Bare(tapOn),
               FlowMap(<<Pair(Plain(assertVisible), Plain(<<"a">>)),
                         Pair(Plain(assertVisible), Plain(<<"b">>))>>)>>),
      SeqDoc(<<Bare(frobnicate), Bare(hideKeyboard), Item(assertVisible, Plain(<<"a">>))>>)>> }

CallDisks == {{}, PathUniverse}

CallInputs ==
  {Input(<<" ">>, <<>>, u, {}) : u \in {FileUri, UntitledUri}}
    \cup {FileInput(f, u, fs) : f \in CallFiles, u \in {FileUri, UntitledUri}, fs \in CallDisks}

\* what a finished call leaves behind: its arguments, the disk it saw, the list it returned
CallRecord == [text |-> context.text, uri |-> context.uri, fs |-> fsFiles, results |-> results]

InitCalls ==
  \E in \in CallInputs :
    /\ context = [text |-> in.text, uri |-> in.uri,
                  lineOffsets |-> computeLineOffsets(in.text)]
    /\ documents = in.documents
    /\ fsFiles = in.fs
    /\ pc = "start"
    /\ results = CallResults(<<>>)
    /\ commandSequences = <<>>
    /\ docIdx = 0
    /\ cmdIdx = 0
    /\ seqIdx = 0
    /\ returned = <<>>
    /\ handledAssertCommands = {}
    /\ textDocuments = <<>>
    /\ diagnosticCollection = <<>>

\* line 238 and lines 122-128, 147 of the next call: the list is returned, and the
\* next call builds its own context, results and commandSequences
Call ==
  /\ pc = "done"
  /\ Len(returned) + 1 < MaxCalls
  /\ returned' = Append(returned, CallRecord)
  /\ \E in \in CallInputs :
       /\ context' = [text |-> in.text, uri |-> in.uri,
                      lineOffsets |-> computeLineOffsets(in.text)]
       /\ documents' = in.documents
       /\ fsFiles' = in.fs
  /\ pc' = "start"
  /\ results' = CallResults(results)
  /\ commandSequences' = <<>>
  /\ docIdx' = 0
  /\ cmdIdx' = 0
  /\ seqIdx' = 0
  /\ UNCHANGED <<handledAssertCommands, textDocuments, diagnosticCollection>>

NextCalls ==
  \/ EmptyFlow
  \/ ParseAllDocuments
  \/ ProcessDocument
  \/ NoCommandsFound
  \/ StartRules
  \/ CheckCommand
  \/ CheckSequence
  \/ Call

SpecCalls == InitCalls /\ [][NextCalls]_vars


----------------------------------------------------------------------------
(* Nodes with any stored range: rangeFromNode must place them in the text. *)

\* the texts of SpecRanges
RangeTexts == {t \in SeqsUpTo({"a", "\n"}, MaxRangeLen) : ~IsBlankText(t)}

\* the name nodes of SpecRanges: without a range, or with any two offsets around the text
RangeNodes ==
  {[ScalarNode(StringValue(frobnicate), 0, 0) EXCEPT !.range = <<>>]}
    \cup {ScalarNode(StringValue(frobnicate), start, end) :
            start \in (0 - 1)..(MaxRangeLen + 1), end \in (0 - 1)..(MaxRangeLen + 1)}

\* the text is not blank, the parser has handed one document, a list of one scalar
\* that is such a node, and the per-command loop is about to report the command
InitRanges ==
  \E text \in RangeTexts, node \in RangeNodes :
    /\ context = [text |-> text, uri |-> FileUri, lineOffsets |-> computeLineOffsets(text)]
    /\ documents = <<[errors |-> <<>>, contents |-> SeqNode(<<node>>, 0, Len(text))]>>
    /\ fsFiles = {}
    /\ pc = "commands"
    /\ results = CallResults(<<>>)
    /\ commandSequences = SequencesWithRoot(SeqNode(<<node>>, 0, Len(text)), <<>>)
    /\ docIdx = 1
    /\ cmdIdx = 0
    /\ seqIdx = 0
    /\ returned = <<>>
    /\ handledAssertCommands = {}
    /\ textDocuments = <<>>
    /\ diagnosticCollection = <<>>

NextRanges ==
  \/ CheckCommand
  \/ CheckSequence

SpecRanges == InitRanges /\ [][NextRanges]_vars

----------------------------------------------------------------------------
(* validateMaestroFlow as one function of its arguments, for the callers    *)
(* that run it to completion inside one handler.  docs is what              *)
(* YAML.parseAllDocuments returns for the text.                             *)

RECURSIVE SyntaxErrorsOfDocuments(_, _, _)
\* lines 151-160 over all documents
SyntaxErrorsOfDocuments(docs, ctx, i) ==
  IF i > Len(docs) THEN <<>>
  ELSE SyntaxErrorResults(docs[i].errors, ctx, 1) \o SyntaxErrorsOfDocuments(docs, ctx, i + 1)

RECURSIVE SequencesOfDocuments(_, _)
\* lines 162-184 over the first n documents
SequencesOfDocuments(docs, n) ==
  IF n = 0 THEN <<>>
  ELSE SequencesWithRoot(docs[n].contents, SequencesOfDocuments(docs, n - 1))

RECURSIVE FindingsOfCommands(_, _, _)
\* the loop of lines 204-213
FindingsOfCommands(commands, ctx, i) ==
  IF i > Len(commands) THEN <<>>
  ELSE CommandFindings(commands[i], ctx) \o FindingsOfCommands(commands, ctx, i + 1)

RECURSIVE FindingsOfSequences(_, _, _)
\* the loop of lines 216-236
FindingsOfSequences(sequences, ctx, i) ==
  IF i > Len(sequences) THEN <<>>
  ELSE SequenceFindings(sequences[i], ctx, NewHandledSet({})).results
         \o FindingsOfSequences(sequences, ctx, i + 1)

validateMaestroFlow(text, docs, uri) ==
  LET ctx == [text |-> text, uri |-> uri, lineOffsets |-> computeLineOffsets(text)]
  IN IF IsBlankText(text)
     THEN <<createResult(ctx, "error", Raw("EmptyFlow", <<>>), NoNode, NoName)>>
     ELSE LET syntax == SyntaxErrorsOfDocuments(docs, ctx, 1)
              sequences == SequencesOfDocuments(docs, Len(docs))
              commands == Flat(sequences, 1)
          IN IF Len(commands) = 0
             THEN Append(syntax,
                    createResult(ctx, "error", Raw("NoCommandsFound", <<>>), NoNode, NoName))
             ELSE syntax \o FindingsOfCommands(commands, ctx, 1)
                         \o FindingsOfSequences(sequences, ctx, 1)

\* the steps of one call end with the list the function gives
StepsComputeValidateMaestroFlow ==
  pc = "done" => results = validateMaestroFlow(context.text, documents, context.uri)

----------------------------------------------------------------------------
(* The host integration (extension.ts): diagnostics of the open documents. *)

UpperCase == <<"A", "B", "C", "D", "E", "F", "G", "H", "I", "J", "K", "L", "M", "N", "O", "P", "Q", "R", "S", "T", "U", "V", "W", "X", "Y", "Z">>
LowerCase == <<"a", "b", "c", "d", "e", "f", "g", "h", "i", "j", "k", "l", "m", "n", "o", "p", "q", "r", "s", "t", "u", "v", "w", "x", "y", "z">>

\* c.toLowerCase() === t for an ASCII character t.  The characters whose lower case is
\* one ASCII character are the ASCII characters other than A-Z (themselves), the
\* letters A-Z, and the Kelvin sign U+212A (k); U+0130 gives two characters, i and
\* U+0307, and every other character gives characters outside ASCII.
LowersTo(c, t) ==
  /\ \A k \in 1..Len(UpperCase) : UpperCase[k] # t
  /\ \/ c = t
     \/ \E k \in 1..Len(UpperCase) : UpperCase[k] = c /\ LowerCase[k] = t
     \/ c = "U+212A" /\ t = "k"

\* name.toLowerCase().endsWith(suffix) for an ASCII suffix (lines 44-48).  The end of
\* the lower-cased name is ASCII only where each of the last characters of the name
\* gives one ASCII character, so the test is made on the last characters of the name.
lowerCaseEndsWith(name, suffix) ==
  /\ Len(name) >= Len(suffix)
  /\ \A i \in 1..Len(suffix) : LowersTo(name[Len(name) - Len(suffix) + i], suffix[i])

startsWith(s, t) == Len(s) >= Len(t) /\ SubSeq(s, 1, Len(t)) = t

\* document.lineAt(0).text: the text before the first line feed
lineAt0(text) ==
  LET feeds == {i \in 1..Len(text) : text[i] = "\n"}
  IN IF feeds = {} THEN text ELSE SubSeq(text, 1, SetMin(feeds) - 1)

\* a vscode.TextDocument: its uri, getText(), and what the parser returns for the text
TextDocument(uri, in) == [uri |-> uri, fileName |-> uri.fsPath,
                          text |-> in.text, documents |-> in.documents]

\* lines 43-51
isMaestroFile(document) ==
  \/ lowerCaseEndsWith(document.fileName, <<".", "f", "l", "o", "w">>)
  \/ lowerCaseEndsWith(document.fileName, <<".", "m", "a", "e", "s", "t", "r", "o", ".", "y", "a", "m", "l">>)
  \/ lowerCaseEndsWith(document.fileName, <<".", "m", "a", "e", "s", "t", "r", "o", ".", "y", "m", "l">>)
  \/ startsWith(Trim(lineAt0(document.text)), <<"a", "p", "p", "I", "d", ":">>)

\* an entry of the DiagnosticCollection, and the absence of one
NoEntry == [present |-> FALSE, diagnostics |-> <<>>]
Entry(diagnostics) == [present |-> TRUE, diagnostics |-> diagnostics]

\* the new diagnostics are added to those of the entry
CollectionSetAppends(collection, uri, diagnostics) ==
  [collection EXCEPT ![uri] = Entry(collection[uri].diagnostics \o diagnostics)]

\* diagnosticCollection.set(uri, diagnostics) replaces the entry (line 397)
CollectionSet(collection, uri, diagnostics) ==
  [collection EXCEPT ![uri] = Entry(diagnostics)]

\* the entry stays
CollectionDeleteKeeps(collection, uri) == collection

\* diagnosticCollection.delete(uri) (lines 374, 415)
CollectionDelete(collection, uri) == [collection EXCEPT ![uri] = NoEntry]

\* lines 381-392: one vscode.Diagnostic of a result
Diagnostic(result) ==
  [range |-> result.range,
   message |-> result.message,
   severity |-> IF result.level = "error" THEN "Error" ELSE "Warning",
   source |-> <<"m", "a", "e", "s", "t", "r", "o", "-", "h", "e", "l", "p", "e", "r">>]

\* results.map(...) of lines 380-395
Diagnostics(list) == [k \in 1..Len(list) |-> Diagnostic(list[k])]

\* lines 372-398
refreshDiagnostics(document, collection) ==
  IF ~isMaestroFile(document)
  THEN CollectionDelete(collection, document.uri)
  ELSE CollectionSet(collection, document.uri,
         Diagnostics(validateMaestroFlow(document.text, document.documents, document.uri)))

\* the documents of the editor
\* a name with an upper-case letter outside ASCII and an upper-case extension
FlowUri == [scheme |-> "file", fsPath |-> <<"/", "w", "/", "f", "/">> \o <<"U+00C9">> \o <<"C", "O", "L", "E", ".", "F", "L", "O", "W">>]
MaestroYmlUri == [scheme |-> "file", fsPath |-> <<"/", "w", "/", "f", "/", "b", ".", "m", "a", "e", "s", "t", "r", "o", ".", "y", "m", "l">>]
EditorUris == {FileUri, FlowUri, MaestroYmlUri}

AppIdDoc == MapDoc(<<Pair(Plain(<<"a", "p", "p", "I", "d">>), Plain(<<"x">>))>>)

\* the files typed into the editor
EditorFiles ==
  { <<AppIdDoc, SeqDoc(<<Bare(frobnicate), Item(assertVisible, Plain(<<"a">>))>>)>>,
    <<SeqDoc(<<Bare(frobnicate), Item(assertVisible, Plain(<<"a">>))>>)>>,
    <<AppIdDoc>>,
    <<AppIdDoc, SeqDoc(<<Bare(launchApp)>>)>>,
    <<SeqDoc(<<Item(runFlow, Plain(<<"s", ".", "y", "a", "m", "l">>))>>)>> }

EditorTexts ==
  {[text |-> <<" ">>, documents |-> <<>>]}
    \cup {[text |-> FileText(f), documents |-> FileDocuments(f)] : f \in EditorFiles}

\* a document the editor does not hold
ClosedDocument(last) == [open |-> FALSE, text |-> <<>>, documents |-> <<>>, last |-> last]
OpenDocument(in, last) == [open |-> TRUE, text |-> in.text, documents |-> in.documents,
                           last |-> last]

\* lines 400-404: the document of the active editor is validated when it is a Maestro file
activate(document, collection) ==
  IF isMaestroFile(document) THEN refreshDiagnostics(document, collection) ELSE collection

\* the state when activate() has run: no editor is active, or one document is shown
InitEditor ==
  /\ context = [text |-> <<>>, uri |-> FileUri, lineOffsets |-> computeLineOffsets(<<>>)]
  /\ documents = <<>>
  /\ fsFiles \in {{}, PathUniverse}
  /\ pc = "events"
  /\ results = <<>>
  /\ commandSequences = <<>>
  /\ docIdx = 0
  /\ cmdIdx = 0
  /\ seqIdx = 0
  /\ returned = <<>>
  /\ handledAssertCommands = {}
  /\ \/ /\ textDocuments = [u \in EditorUris |-> ClosedDocument("none")]
        /\ diagnosticCollection = [u \in EditorUris |-> NoEntry]
     \/ \E active \in EditorUris, in \in EditorTexts :
          /\ textDocuments = [u \in EditorUris |->
                                IF u = active THEN OpenDocument(in, "activate")
                                ELSE ClosedDocument("none")]
          /\ diagnosticCollection = activate(TextDocument(active, in),
                                             [u \in EditorUris |-> NoEntry])

\* lines 406-408
onDidOpenTextDocument ==
  \E uri \in EditorUris, in \in EditorTexts :
    /\ ~textDocuments[uri].open
    /\ textDocuments' = [textDocuments EXCEPT ![uri] = OpenDocument(in, "open")]
    /\ diagnosticCollection' = refreshDiagnostics(TextDocument(uri, in), diagnosticCollection)
    /\ UNCHANGED <<context, documents, fsFiles, pc, results, commandSequences,
                   docIdx, cmdIdx, seqIdx, returned, handledAssertCommands>>

\* lines 410-412
onDidChangeTextDocument ==
  \E uri \in EditorUris, in \in EditorTexts :
    /\ textDocuments[uri].open
    /\ textDocuments' = [textDocuments EXCEPT ![uri] = OpenDocument(in, "change")]
    /\ diagnosticCollection' = refreshDiagnostics(TextDocument(uri, in), diagnosticCollection)
    /\ UNCHANGED <<context, documents, fsFiles, pc, results, commandSequences,
                   docIdx, cmdIdx, seqIdx, returned, handledAssertCommands>>

\* lines 414-416
onDidCloseTextDocument ==
  \E uri \in EditorUris :
    /\ textDocuments[uri].open
    /\ textDocuments' = [textDocuments EXCEPT ![uri] = ClosedDocument("close")]
    /\ diagnosticCollection' = CollectionDelete(diagnosticCollection, uri)
    /\ UNCHANGED <<context, documents, fsFiles, pc, results, commandSequences,
                   docIdx, cmdIdx, seqIdx, returned, handledAssertCommands>>

NextEditor ==
  \/ onDidOpenTextDocument
  \/ onDidChangeTextDocument
  \/ onDidCloseTextDocument

SpecEditor == InitEditor /\ [][NextEditor]_vars
----------------------------------------------------------------------------
(* Properties.                                                             *)

Done == pc = "done"

\* the text is empty or whitespace-only
AllWhiteSpace(text) == \A i \in 1..Len(text) : text[i] \in WhiteSpace

OriginRange == Range(Position(0, 0), Position(0, 0))

\* the results with one of these raw messages, placed on this node
ResultsAt(ids, node) ==
  {k \in 1..Len(results) :
     results[k].message.raw \in ids /\ results[k].range = rangeFromNode(node, context)}

\* the results with one of these raw messages, placed on the name or the value of a command
ResultsFor(ids, command) ==
  ResultsAt(ids, command.nameNode) \cup ResultsAt(ids, command.valueNode)

ResultsWith(ids) == {k \in 1..Len(results) : results[k].message.raw \in ids}

\* the discovered commands, each as <<sequence, index>>
Slots ==
  {<<s, i>> \in (1..Len(commandSequences)) \X (1..Len(allCommands)) :
     i <= Len(commandSequences[s])}
CommandAt(slot) == commandSequences[slot[1]][slot[2]]
HasNext(slot) == slot[2] < Len(commandSequences[slot[1]])
NextSlot(slot) == <<slot[1], slot[2] + 1>>

RECURSIVE CountParseErrors(_, _)
CountParseErrors(docs, i) ==
  IF i > Len(docs) THEN 0 ELSE Len(docs[i].errors) + CountParseErrors(docs, i + 1)

\* C1: for a text that is empty or whitespace-only the run returns exactly one
\* diagnostic, the empty-flow Error with line 1 and range (0,0)-(0,0), and neither
\* the document loop nor any rule runs.
C1_BlankTextOneError ==
  AllWhiteSpace(context.text) =>
    /\ pc \in {"start", "done"}
    /\ docIdx = 0 /\ cmdIdx = 0 /\ seqIdx = 0 /\ commandSequences = <<>>
    /\ Done => /\ Len(results) = 1
               /\ results[1].level = "error"
               /\ results[1].message.raw = "EmptyFlow"
               /\ results[1].line = 1
               /\ results[1].range = OriginRange

C1_Witness ==
  /\ Done
  /\ AllWhiteSpace(context.text)
  /\ Len(context.text) >= 2
  /\ context.text[1] = "\n"
  /\ Len(results) = 1

\* C2 as the specification states it: for a non-blank text with zero discovered commands the run returns
\* exactly one diagnostic, an Error that is not the blank-text one, and no rule runs.
C2_NoCommandsExactlyOne ==
  (Done /\ ~AllWhiteSpace(context.text) /\ Len(allCommands) = 0) =>
    /\ Len(results) = 1
    /\ results[1].level = "error"
    /\ results[1].message.raw # "EmptyFlow"
    /\ cmdIdx = 0 /\ seqIdx = 0

\* C2 amended: for a non-blank text with zero discovered commands the run returns
\* one syntax-error diagnostic per parse error, then exactly one Error that is not
\* the blank-text one (so exactly one diagnostic when nothing failed to parse), and
\* no per-command or per-sequence rule runs.
C2_NoCommandsOneAfterSyntaxErrors ==
  (Done /\ ~AllWhiteSpace(context.text) /\ Len(allCommands) = 0) =>
    /\ Len(results) = CountParseErrors(documents, 1) + 1
    /\ \A k \in 1..(Len(results) - 1) :
         results[k].level = "error" /\ results[k].message.raw = "YamlParseError"
    /\ results[Len(results)].level = "error"
    /\ results[Len(results)].message.raw \notin {"EmptyFlow", "YamlParseError"}
    /\ cmdIdx = 0 /\ seqIdx = 0

C2_Witness ==
  /\ Done
  /\ ~AllWhiteSpace(context.text)
  /\ Len(allCommands) = 0
  /\ Len(documents) = 2
  /\ CountParseErrors(documents, 1) = 1
  /\ Len(results) = 2

\* C3: every diagnostic in results, whatever produced it, has line = range.start.line + 1.
C3_LineIsStartLinePlusOne ==
  \A k \in 1..Len(results) : results[k].line = results[k].range.start.line + 1

C3_Witness ==
  /\ Done
  /\ \E k \in ResultsWith({"YamlParseError"}) : results[k].line > 1
  /\ \E k \in ResultsWith({"TapOnWithoutSelector"}) : results[k].line > 1
  /\ \E k \in ResultsWith({"AssertVisibleImmediatelyAfterTapOn"}) : results[k].line > 1

RECURSIVE CommandsListsIn(_)
\* every sequence node found under a key `commands` anywhere below a node
CommandsListsIn(node) ==
  IF isMap(node)
  THEN UNION {(IF /\ isScalar(node.items[p].key)
                  /\ node.items[p].key.value = StringValue(commandsKey)
                  /\ isSeq(node.items[p].value)
               THEN {node.items[p].value}
               ELSE {})
                \cup CommandsListsIn(node.items[p].value) : p \in 1..Len(node.items)}
  ELSE IF isSeq(node)
  THEN UNION {CommandsListsIn(node.items[p]) : p \in 1..Len(node.items)}
  ELSE {}

\* C4: every list under a key `commands` anywhere in a document tree that holds a
\* command is one of the discovered sequences, and every tapOn without arguments in
\* it gets the tapOn error.
C4_EveryCommandsListDiscovered ==
  Done =>
    \A d \in 1..Len(documents) :
      \A list \in CommandsListsIn(documents[d].contents) :
        LET commands == extractCommandsFromSequence(list)
        IN Len(commands) > 0 =>
             /\ \E s \in 1..Len(commandSequences) : commandSequences[s] = commands
             /\ \A i \in 1..Len(commands) :
                  (commands[i].name = tapOn /\ ~Present(commands[i].valueNode)) =>
                    ResultsAt({"TapOnWithoutSelector"}, commands[i].nameNode) # {}

\* C5: for every adjacent pair tapOn, assertVisible of one sequence exactly one
\* Warning "immediately after tapOn" is emitted, on the assertVisible, and no
\* "without a prior navigation or wait" warning is emitted for that assertVisible;
\* every assertVisible gets at most one of the two warnings.
C5_OneWarningAfterTapOn ==
  Done =>
    \A slot \in Slots :
      /\ (HasNext(slot) /\ CommandAt(slot).name = tapOn
            /\ CommandAt(NextSlot(slot)).name = assertVisible) =>
           LET next == CommandAt(NextSlot(slot))
               hits == ResultsAt({"AssertVisibleImmediatelyAfterTapOn"}, next.nameNode)
           IN /\ Cardinality(hits) = 1
              /\ \A k \in hits :
                   results[k].level = "warning" /\ results[k].command = assertVisible
              /\ ResultsAt({"AssertVisibleWithoutPriorNavigationOrWait"}, next.nameNode) = {}
      /\ CommandAt(slot).name = assertVisible =>
           Cardinality(ResultsAt({"AssertVisibleImmediatelyAfterTapOn",
                                  "AssertVisibleWithoutPriorNavigationOrWait"},
                                 CommandAt(slot).nameNode)) <= 1

C5_Witness ==
  /\ Done
  /\ \E s \in 1..Len(commandSequences) :
       /\ Len(commandSequences[s]) = 3
       /\ commandSequences[s][1].name = assertVisible
       /\ commandSequences[s][2].name = tapOn
       /\ commandSequences[s][3].name = assertVisible
       /\ ResultsAt({"AssertVisibleImmediatelyAfterTapOn"},
                    commandSequences[s][3].nameNode) # {}

\* C6: an assertVisible at index i of a sequence that is not directly preceded by a
\* tapOn gets exactly one Warning "without a prior navigation or wait" if no command
\* before it in the same sequence is a navigation-or-wait command, and none
\* otherwise; the commands of other sequences do not count.
C6_PriorNavigationInSameSequence ==
  Done =>
    \A slot \in Slots :
      LET seq == commandSequences[slot[1]]
          i == slot[2]
          handled == i > 1 /\ seq[i - 1].name = tapOn
          hits == ResultsAt({"AssertVisibleWithoutPriorNavigationOrWait"}, seq[i].nameNode)
      IN (seq[i].name = assertVisible /\ ~handled) =>
           /\ Cardinality(hits)
                = IF \E j \in 1..(i - 1) : seq[j].name \in NAV_OR_WAIT_COMMANDS
                  THEN 0 ELSE 1
           /\ \A k \in hits : results[k].level = "warning"

C6_Witness ==
  /\ Done
  /\ Len(commandSequences) = 2
  /\ \E j \in 1..Len(commandSequences[1]) :
       commandSequences[1][j].name \in NAV_OR_WAIT_COMMANDS
  /\ commandSequences[2][1].name = assertVisible
  /\ ResultsAt({"AssertVisibleWithoutPriorNavigationOrWait"},
               commandSequences[2][1].nameNode) # {}

\* the adjacent pairs of one sequence whose two commands have the same name
SameNamePairs ==
  {slot \in Slots : HasNext(slot) /\ CommandAt(slot).name = CommandAt(NextSlot(slot)).name}

\* C7: every adjacent pair of one sequence with the same name gets exactly one
\* Warning naming the command, whatever the arguments are; a pair with different
\* names gets none, and no pair is formed across two sequences.
C7_DuplicateSequentialActions ==
  Done =>
    /\ \A slot \in Slots :
         HasNext(slot) =>
           LET next == CommandAt(NextSlot(slot))
               hits == ResultsAt({"DuplicateSequentialAction"}, next.nameNode)
           IN /\ Cardinality(hits) = IF slot \in SameNamePairs THEN 1 ELSE 0
              /\ \A k \in hits :
                   results[k].level = "warning" /\ results[k].message.arg = next.name
    /\ Cardinality(ResultsWith({"DuplicateSequentialAction"})) = Cardinality(SameNamePairs)

C7_Witness ==
  /\ Done
  /\ Len(commandSequences) = 2
  /\ commandSequences[1][Len(commandSequences[1])].name = commandSequences[2][1].name
  /\ \E slot \in SameNamePairs :
       CommandAt(slot).valueNode # CommandAt(NextSlot(slot)).valueNode
  /\ Cardinality(ResultsWith({"DuplicateSequentialAction"})) = 2

TapOnRaws ==
  {"TapOnWithoutSelector", "TapOnEmptyTextSelector", "TapOnWithoutSelectorKey",
   "TapOnUnsupportedValue"}

NonBlankStringScalar(node) ==
  /\ isScalar(node)
  /\ node.value.type = "string"
  /\ ~AllWhiteSpace(node.value.s)

\* the value of a tapOn names what to tap
IsSelector(valueNode) ==
  \/ NonBlankStringScalar(valueNode)
  \/ /\ isMap(valueNode)
     /\ \E p \in 1..Len(valueNode.items) :
          /\ isScalar(valueNode.items[p].key)
          /\ valueNode.items[p].key.value
               \in {StringValue(textKey), StringValue(idKey),
                    StringValue(accessibilityLabelKey)}
          /\ NonBlankStringScalar(valueNode.items[p].value)

\* C8: a discovered tapOn gets exactly one tapOn Error when its value is absent, a
\* scalar that is not a non-blank string, a mapping without a non-blank string under
\* text, id or accessibilityLabel, or of another shape, and none otherwise; a command
\* with another name gets none.
C8_TapOnSelector ==
  Done =>
    /\ \A slot \in Slots :
         LET c == CommandAt(slot)
             hits == ResultsFor(TapOnRaws, c)
         IN /\ Cardinality(hits)
                 = IF c.name = tapOn /\ ~IsSelector(c.valueNode) THEN 1 ELSE 0
            /\ \A k \in hits : results[k].level = "error" /\ results[k].command = tapOn
    /\ Cardinality(ResultsWith(TapOnRaws))
         = Cardinality({slot \in Slots :
                          CommandAt(slot).name = tapOn
                            /\ ~IsSelector(CommandAt(slot).valueNode)})

C8_Witness ==
  /\ Done
  /\ \E slot \in Slots :
       /\ CommandAt(slot).name = tapOn
       /\ isScalar(CommandAt(slot).valueNode)
       /\ CommandAt(slot).valueNode.value = StringValue(<<" ">>)
       /\ ResultsAt(TapOnRaws, CommandAt(slot).valueNode) # {}

\* C9: a discovered command whose name is not, letter for letter, one of the 34
\* known commands gets exactly one Error naming it; a known command gets none.
C9_UnknownCommandName ==
  /\ Cardinality(KNOWN_COMMANDS) = 34
  /\ Done =>
       /\ \A slot \in Slots :
            LET c == CommandAt(slot)
                hits == ResultsAt({"UnknownCommand"}, c.nameNode)
            IN /\ Cardinality(hits) = IF c.name \in KNOWN_COMMANDS THEN 0 ELSE 1
               /\ \A k \in hits :
                    /\ results[k].level = "error"
                    /\ results[k].message.arg = c.name
                    /\ results[k].command = c.name
       /\ Cardinality(ResultsWith({"UnknownCommand"}))
            = Cardinality({slot \in Slots : CommandAt(slot).name \notin KNOWN_COMMANDS})

C9_Witness ==
  /\ Done
  /\ \E slot \in Slots :
       /\ CommandAt(slot).name = <<"T", "a", "p", "O", "n">>
       /\ ResultsAt({"UnknownCommand"}, CommandAt(slot).nameNode) # {}
  /\ Len(results) = 1

\* the target paths of a runFlow value: its string, or the string under `flow`
TargetPaths(valueNode) ==
  IF isScalar(valueNode)
  THEN IF valueNode.value.type = "string" THEN {valueNode.value.s} ELSE {}
  ELSE IF isMap(valueNode)
  THEN {valueNode.items[p].value.value.s :
          p \in {q \in 1..Len(valueNode.items) :
                   /\ isScalar(valueNode.items[q].key)
                   /\ valueNode.items[q].key.value = StringValue(flowKey)
                   /\ isScalar(valueNode.items[q].value)
                   /\ valueNode.items[q].value.value.type = "string"}}
  ELSE {}

\* the target exists once resolved against the directory of the document
TargetExists(path) ==
  (IF isAbsolute(path) THEN path ELSE resolve(dirname(context.uri.fsPath), path))
    \in fsFiles

IsDynamic(path) == Includes(path, <<"$", "{">>)

\* the runFlow errors of a command that name this path
RunFlowErrors(command, path) ==
  {k \in ResultsFor({"RunFlowFileDoesNotExist"}, command) :
     /\ results[k].level = "error"
     /\ results[k].message.arg = path
     /\ results[k].range = rangeFromNode(command.valueNode, context)}

\* C10 as the specification states it: with a file location, a runFlow whose target has no `${` and does
\* not exist once resolved gets exactly one Error naming the path as written; a
\* target with `${` or an existing target gets no runFlow error.
C10_RunFlowMissingTarget ==
  (Done /\ context.uri.scheme = "file") =>
    \A slot \in Slots :
      LET c == CommandAt(slot)
      IN c.name = runFlow =>
           \A path \in TargetPaths(c.valueNode) :
             IF ~IsDynamic(path) /\ ~TargetExists(path)
             THEN /\ Cardinality(RunFlowErrors(c, path)) = 1
                  /\ ResultsFor({"RunFlowFileDoesNotExist"}, c) = RunFlowErrors(c, path)
             ELSE ResultsFor({"RunFlowFileDoesNotExist"}, c) = {}

\* C10 amended: with a file location, a runFlow whose target is a non-empty path
\* without `${` that does not exist once resolved gets exactly one Error naming the
\* path as written; an empty target, a target with `${` or an existing target gets
\* no runFlow error.
C10_RunFlowMissingNonEmptyTarget ==
  (Done /\ context.uri.scheme = "file") =>
    \A slot \in Slots :
      LET c == CommandAt(slot)
      IN c.name = runFlow =>
           \A path \in TargetPaths(c.valueNode) :
             IF path # <<>> /\ ~IsDynamic(path) /\ ~TargetExists(path)
             THEN /\ Cardinality(RunFlowErrors(c, path)) = 1
                  /\ ResultsFor({"RunFlowFileDoesNotExist"}, c) = RunFlowErrors(c, path)
             ELSE ResultsFor({"RunFlowFileDoesNotExist"}, c) = {}

C10_Witness ==
  /\ Done
  /\ context.uri.scheme = "file"
  /\ <<"/", "w", "/", "f", "/", "s", ".", "y", "a", "m", "l">> \in fsFiles
  /\ <<"/", "w", "/", "s", ".", "y", "a", "m", "l">> \notin fsFiles
  /\ \E slot \in Slots :
       /\ CommandAt(slot).name = runFlow
       /\ isMap(CommandAt(slot).valueNode)
       /\ TargetPaths(CommandAt(slot).valueNode) = {<<".", ".", "/", "s", ".", "y", "a", "m", "l">>}
       /\ Cardinality(RunFlowErrors(CommandAt(slot), <<".", ".", "/", "s", ".", "y", "a", "m", "l">>)) = 1

\* the calls made so far that have returned, the current one included once it is done
Calls == returned \o (IF Done THEN <<CallRecord>> ELSE <<>>)

HasRaw(list, raw) == \E k \in 1..Len(list) : list[k].message.raw = raw

\* C11: with a location whose scheme is not `file` the returned list does not depend
\* on the disk: two calls with the same text return the same list whatever exists on
\* disk, and no list holds a runFlow file-existence error.
C11_NoFileLocationIgnoresDisk ==
  \A a \in 1..Len(Calls) :
    Calls[a].uri.scheme # "file" =>
      /\ ~HasRaw(Calls[a].results, "RunFlowFileDoesNotExist")
      /\ \A b \in 1..Len(Calls) :
           (Calls[b].uri.scheme # "file" /\ Calls[b].text = Calls[a].text) =>
             Calls[b].results = Calls[a].results

C11_Witness ==
  /\ Len(Calls) = 3
  /\ Calls[1].text = Calls[2].text /\ Calls[2].text = Calls[3].text
  /\ Calls[1].uri.scheme # "file" /\ Calls[2].uri.scheme # "file"
  /\ Calls[1].fs = {} /\ Calls[2].fs = PathUniverse
  /\ Calls[1].results # <<>>
  /\ Calls[3].uri.scheme = "file" /\ Calls[3].fs = {}
  /\ HasRaw(Calls[3].results, "RunFlowFileDoesNotExist")

\* C12: two calls with the same text, the same location and the same disk return the
\* same list, element by element, whatever calls were made in between.
C12_SameCallSameList ==
  \A a, b \in 1..Len(Calls) :
    (Calls[a].text = Calls[b].text /\ Calls[a].uri = Calls[b].uri
       /\ Calls[a].fs = Calls[b].fs) =>
      /\ Len(Calls[a].results) = Len(Calls[b].results)
      /\ \A k \in 1..Len(Calls[a].results) :
           LET x == Calls[a].results[k]
               y == Calls[b].results[k]
           IN /\ x.level = y.level
              /\ x.message = y.message
              /\ x.range = y.range
              /\ x.line = y.line

C12_Witness ==
  /\ Len(Calls) = 3
  /\ Calls[1].text = Calls[3].text /\ Calls[1].uri = Calls[3].uri
  /\ Calls[1].fs = Calls[3].fs
  /\ Calls[2].text # Calls[1].text
  /\ Len(Calls[1].results) >= 2
  /\ Calls[2].results # <<>>

InputTextRaws ==
  {"InputTextRequiresValue", "InputTextMustBeString", "InputTextObjectWithoutText",
   "InputTextUnsupportedValue"}

ConditionalRaws == {"ConditionalMustBeObject", "ConditionalWithoutCommands"}

TakeScreenshotRaws ==
  {"TakeScreenshotWithoutName", "TakeScreenshotNameString",
   "TakeScreenshotObjectWithoutName", "TakeScreenshotUnexpectedValue"}

CommandRaws ==
  TapOnRaws \cup InputTextRaws \cup ConditionalRaws \cup TakeScreenshotRaws
    \cup {"RunFlowFileDoesNotExist", "UnknownCommand"}

SequenceRaws ==
  {"AssertVisibleImmediatelyAfterTapOn", "AssertVisibleWithoutPriorNavigationOrWait",
   "DuplicateSequentialAction"}

\* the place of a rule among the three per-sequence rules
RuleRank(raw) ==
  IF raw = "AssertVisibleImmediatelyAfterTapOn" THEN 1
  ELSE IF raw = "AssertVisibleWithoutPriorNavigationOrWait" THEN 2
  ELSE 3

\* a diagnostic is placed on this node
IsOn(result, node) == Present(node) /\ result.range = rangeFromNode(node, context)

\* the place a diagnostic has in the order of the specification:
\* <<0, document, error>>, <<1, sequence, command>>, <<2, sequence, rule>>, or <<3, 0, 0>>
\* for the diagnostic of a text without commands
OrderKey(result) ==
  LET raw == result.message.raw
  IN IF raw = "YamlParseError"
     THEN LET d == CHOOSE d \in 1..Len(documents) :
                     \E e \in 1..Len(documents[d].errors) :
                       /\ result.message.arg = documents[d].errors[e].message
                       /\ result.range.start
                            = offsetToPosition(documents[d].errors[e].pos[1],
                                               context.lineOffsets)
              e == CHOOSE e \in 1..Len(documents[d].errors) :
                     result.range.start
                       = offsetToPosition(documents[d].errors[e].pos[1],
                                          context.lineOffsets)
          IN <<0, d, e>>
     ELSE IF raw \in CommandRaws
     THEN LET slot == CHOOSE slot \in Slots :
                        \/ IsOn(result, CommandAt(slot).nameNode)
                        \/ IsOn(result, CommandAt(slot).valueNode)
          IN <<1, slot[1], slot[2]>>
     ELSE IF raw \in SequenceRaws
     THEN LET slot == CHOOSE slot \in Slots : IsOn(result, CommandAt(slot).nameNode)
          IN <<2, slot[1], RuleRank(raw)>>
     ELSE <<3, 0, 0>>

KeyLeq(x, y) ==
  \/ x[1] < y[1]
  \/ x[1] = y[1] /\ x[2] < y[2]
  \/ x[1] = y[1] /\ x[2] = y[2] /\ x[3] <= y[3]

\* C13: in the returned list the syntax errors come first, in document order, then the
\* per-command findings by sequence and by command position, then the per-sequence
\* findings by sequence and, within one sequence, by rule: immediately after tapOn,
\* without prior navigation, duplicate.
C13_DiagnosticOrder ==
  Done =>
    \A k, l \in 1..Len(results) :
      k < l => KeyLeq(OrderKey(results[k]), OrderKey(results[l]))

C13_Witness ==
  /\ Done
  /\ Len(commandSequences) = 2
  /\ ResultsWith({"YamlParseError"}) # {}
  /\ \E k \in ResultsWith(CommandRaws) : OrderKey(results[k])[2] = 1
  /\ \E k \in ResultsWith(CommandRaws) : OrderKey(results[k])[2] = 2
  /\ \E k \in ResultsWith({"AssertVisibleImmediatelyAfterTapOn"}) :
       \E l \in ResultsWith({"AssertVisibleWithoutPriorNavigationOrWait"}) :
         /\ OrderKey(results[k])[2] = 1 /\ OrderKey(results[l])[2] = 1
         /\ results[l].line < results[k].line
  /\ \E k \in ResultsWith({"DuplicateSequentialAction"}) : OrderKey(results[k])[2] = 1
  /\ \E k \in ResultsWith(SequenceRaws) : OrderKey(results[k])[2] = 2

\* the diagnostics of one parse error
ResultsOfError(err) ==
  {k \in ResultsWith({"YamlParseError"}) :
     /\ results[k].level = "error"
     /\ results[k].message.arg = err.message
     /\ results[k].range.start = offsetToPosition(err.pos[1], context.lineOffsets)}

\* the findings of the per-command rules for this command are all in results
IsChecked(command) ==
  LET findings == CommandFindings(command, context)
  IN \A f \in 1..Len(findings) : \E k \in 1..Len(results) : results[k] = findings[f]

\* C14: every parse error of every document gives exactly one Error, and the run goes
\* on: the commands of a document with parse errors and of the other documents are
\* extracted and checked by the rules.
C14_ParseErrorsAreNotFatal ==
  (Done /\ ~AllWhiteSpace(context.text)) =>
    /\ \A d \in 1..Len(documents) :
         /\ \A e \in 1..Len(documents[d].errors) :
              Cardinality(ResultsOfError(documents[d].errors[e])) = 1
         /\ isSeq(documents[d].contents) =>
              LET commands == extractCommandsFromSequence(documents[d].contents)
              IN Len(commands) > 0 =>
                   /\ \E s \in 1..Len(commandSequences) : commandSequences[s] = commands
                   /\ \A i \in 1..Len(commands) : IsChecked(commands[i])
    /\ Cardinality(ResultsWith({"YamlParseError"})) = CountParseErrors(documents, 1)
    /\ Len(allCommands) > 0 =>
         cmdIdx = Len(allCommands) /\ seqIdx = Len(commandSequences)

C14_Witness ==
  /\ Done
  /\ Len(documents) = 2
  /\ Len(documents[1].errors) = 1
  /\ Len(documents[2].errors) = 0
  /\ isSeq(documents[1].contents) /\ isSeq(documents[2].contents)
  /\ Len(commandSequences) = 2
  /\ commandSequences[1] = extractCommandsFromSequence(documents[1].contents)
  /\ \E i \in 1..Len(commandSequences[1]) :
       ResultsFor(TapOnRaws, commandSequences[1][i]) # {}
  /\ commandSequences[2] = extractCommandsFromSequence(documents[2].contents)
  /\ ResultsAt({"AssertVisibleWithoutPriorNavigationOrWait"},
               commandSequences[2][1].nameNode) # {}

\* C15: the message of every diagnostic starts with `<commandName> at line <N>: ` when
\* it has a command name and with `Line <N>: ` otherwise, N being its own line, and the
\* raw text of the rule follows; every finding of a per-command or per-sequence rule
\* has the name of the command it is placed on.
C15_MessagePrefix ==
  \A k \in 1..Len(results) :
    LET r == results[k]
    IN /\ r.message.prefixText
            = IF r.command # NoName
              THEN r.command \o <<" ", "a", "t", " ", "l", "i", "n", "e", " ">>
                     \o Decimal(r.line) \o <<":", " ">>
              ELSE <<"L", "i", "n", "e", " ">> \o Decimal(r.line) \o <<":", " ">>
       /\ r.message.raw \in CommandRaws \cup SequenceRaws =>
            /\ r.command # NoName
            /\ \E slot \in Slots :
                 /\ CommandAt(slot).name = r.command
                 /\ \/ IsOn(r, CommandAt(slot).nameNode)
                    \/ IsOn(r, CommandAt(slot).valueNode)

C15_Witness ==
  /\ Done
  /\ \E k \in ResultsWith({"YamlParseError"}) :
       results[k].message.prefixText = <<"L", "i", "n", "e", " ", "3", ":", " ">>
  /\ \E k \in ResultsWith({"TapOnWithoutSelector"}) :
       results[k].message.prefixText = <<"t", "a", "p", "O", "n", " ", "a", "t", " ", "l", "i", "n", "e", " ", "2", ":", " ">>
  /\ \E k \in ResultsWith({"AssertVisibleImmediatelyAfterTapOn"}) :
       results[k].message.prefixText = <<"a", "s", "s", "e", "r", "t", "V", "i", "s", "i", "b", "l", "e", " ", "a", "t", " ", "l", "i", "n", "e", " ", "3", ":", " ">>

StringScalar(node) == isScalar(node) /\ node.value.type = "string"

\* a pair of the mapping has this key and a value of this kind
HasPair(valueNode, key, Holds(_)) ==
  /\ isMap(valueNode)
  /\ \E p \in 1..Len(valueNode.items) :
       /\ isScalar(valueNode.items[p].key)
       /\ valueNode.items[p].key.value = StringValue(key)
       /\ Holds(valueNode.items[p].value)

\* the value of an inputText is a text
IsText(valueNode) == StringScalar(valueNode) \/ HasPair(valueNode, textKey, StringScalar)

\* C16: a discovered inputText gets exactly one inputText Error when its value is
\* absent, a scalar that is not a string, a mapping without a string under `text`, or
\* of another shape; any string, the empty one included, and any mapping whose `text`
\* is a string get none, and so does a command with another name.
C16_InputTextValue ==
  Done =>
    /\ \A slot \in Slots :
         LET c == CommandAt(slot)
             hits == ResultsFor(InputTextRaws, c)
         IN /\ Cardinality(hits)
                 = IF c.name = inputText /\ ~IsText(c.valueNode) THEN 1 ELSE 0
            /\ \A k \in hits : results[k].level = "error" /\ results[k].command = inputText
    /\ Cardinality(ResultsWith(InputTextRaws))
         = Cardinality({slot \in Slots :
                          CommandAt(slot).name = inputText
                            /\ ~IsText(CommandAt(slot).valueNode)})

C16_Witness ==
  /\ Done
  /\ \E slot \in Slots :
       /\ CommandAt(slot).name = inputText
       /\ HasPair(CommandAt(slot).valueNode, textKey, StringScalar)
       /\ CommandAt(slot).valueNode.items[1].value.value = StringValue(<<>>)
  /\ results = <<>>

NonEmptySeq(node) == isSeq(node) /\ Len(node.items) > 0

\* C17: a discovered conditional gets exactly one conditional Error unless its value is
\* a mapping with a key `commands` holding a sequence of at least one item; then it
\* gets none, and so does a command with another name.
C17_ConditionalHasCommands ==
  Done =>
    /\ \A slot \in Slots :
         LET c == CommandAt(slot)
             hits == ResultsFor(ConditionalRaws, c)
         IN /\ Cardinality(hits)
                 = IF c.name = conditional /\ ~HasPair(c.valueNode, commandsKey, NonEmptySeq)
                   THEN 1 ELSE 0
            /\ \A k \in hits :
                 results[k].level = "error" /\ results[k].command = conditional
    /\ Cardinality(ResultsWith(ConditionalRaws))
         = Cardinality({slot \in Slots :
                          CommandAt(slot).name = conditional
                            /\ ~HasPair(CommandAt(slot).valueNode, commandsKey, NonEmptySeq)})

C17_Witness ==
  /\ Done
  /\ \E slot \in Slots :
       /\ CommandAt(slot).name = conditional
       /\ HasPair(CommandAt(slot).valueNode, commandsKey, isSeq)
       /\ ~HasPair(CommandAt(slot).valueNode, commandsKey, NonEmptySeq)
       /\ ResultsAt({"ConditionalWithoutCommands"}, CommandAt(slot).nameNode) # {}

\* the value of a takeScreenshot names the screenshot
IsScreenshotName(valueNode) ==
  NonBlankStringScalar(valueNode) \/ HasPair(valueNode, nameKey, NonBlankStringScalar)

\* C18: a discovered takeScreenshot gets exactly one diagnostic, a Warning and never an
\* Error, when its value is absent, a scalar that is not a non-blank string, a mapping
\* without a non-blank string under `name`, or of another shape; otherwise none.
C18_TakeScreenshotName ==
  Done =>
    /\ \A slot \in Slots :
         LET c == CommandAt(slot)
             hits == ResultsFor(TakeScreenshotRaws, c)
         IN /\ Cardinality(hits)
                 = IF c.name = takeScreenshot /\ ~IsScreenshotName(c.valueNode)
                   THEN 1 ELSE 0
            /\ \A k \in hits :
                 results[k].level = "warning" /\ results[k].command = takeScreenshot
            /\ c.name = takeScreenshot =>
                 \A k \in 1..Len(results) :
                   (IsOn(results[k], c.nameNode) \/ IsOn(results[k], c.valueNode)) =>
                     results[k].level = "warning"
    /\ Cardinality(ResultsWith(TakeScreenshotRaws))
         = Cardinality({slot \in Slots :
                          CommandAt(slot).name = takeScreenshot
                            /\ ~IsScreenshotName(CommandAt(slot).valueNode)})

C18_Witness ==
  /\ Done
  /\ \E slot \in Slots :
       /\ CommandAt(slot).name = takeScreenshot
       /\ HasPair(CommandAt(slot).valueNode, nameKey, StringScalar)
       /\ ResultsAt({"TakeScreenshotObjectWithoutName"}, CommandAt(slot).valueNode) # {}
  /\ Len(results) = 1

\* an item of a list names a command: a non-blank string, or a mapping whose first key is one
NamesCommand(item) ==
  \/ NonBlankStringScalar(item)
  \/ isMap(item) /\ Len(item.items) > 0 /\ NonBlankStringScalar(item.items[1].key)

\* the commands a list must give: one per item that names a command, in item order
ExpectedCommands(seq) ==
  LET named == {i \in 1..Len(seq.items) : NamesCommand(seq.items[i])}
      nth(k) == CHOOSE i \in named : Cardinality({j \in named : j <= i}) = k
  IN [k \in 1..Cardinality(named) |->
        LET item == seq.items[nth(k)]
        IN IF isScalar(item)
           THEN [name |-> item.value.s, nameNode |-> item, valueNode |-> NoNode]
           ELSE [name |-> item.items[1].key.value.s,
                 nameNode |-> item.items[1].key,
                 valueNode |-> item.items[1].value]]

\* the documents searched so far whose root is a list that names a command
ListsSearched ==
  {d \in 1..docIdx :
     isSeq(documents[d].contents) /\ ExpectedCommands(documents[d].contents) # <<>>}

\* C19: the commands extracted from a list are, in item order, one per item that is a
\* non-blank string (no value) or a mapping whose first key is a non-blank string (the
\* value of that pair); other items and later pairs give nothing, so every command has
\* a non-empty name.
C19_ExtractedCommands ==
  /\ (\A d \in 1..Len(documents) : ~isMap(documents[d].contents)) =>
       /\ Len(commandSequences) = Cardinality(ListsSearched)
       /\ \A d \in ListsSearched :
            commandSequences[Cardinality({c \in ListsSearched : c <= d})]
              = ExpectedCommands(documents[d].contents)
  /\ \A slot \in Slots :
       CommandAt(slot).name # <<>> /\ ~AllWhiteSpace(CommandAt(slot).name)

C19_Witness ==
  /\ Done
  /\ Len(documents) = 1
  /\ isSeq(documents[1].contents)
  /\ Len(documents[1].contents.items) = 8
  /\ Len(commandSequences) = 1
  /\ Len(commandSequences[1]) = 2
  /\ commandSequences[1][1].name = launchApp
  /\ commandSequences[1][1].valueNode.value = StringValue(<<"a">>)
  /\ commandSequences[1][2].name = hideKeyboard

\* the offsets at which a line of the text starts
LineStarts(text) == {0} \cup {i \in 1..Len(text) : text[i] = "\n"}

\* C20: in every run, for every offset from 0 to the length of the text, offsetToPosition over the
\* line offsets of the text gives the greatest line whose start is not after the offset
\* and the column offset minus that start; a negative offset gives (0,0) and an offset
\* after the end of the text is on the last line.
C20_OffsetToPosition ==
  Done =>
    LET starts == LineStarts(context.text)
    IN /\ context.lineOffsets = computeLineOffsets(context.text)
       /\ \A offset \in (0 - 2)..(Len(context.text) + 2) :
            LET position == offsetToPosition(offset, context.lineOffsets)
                before == {s \in starts : s <= offset}
            IN IF offset < 0
               THEN position = Position(0, 0)
               ELSE /\ position.line = Cardinality(before) - 1
                    /\ position.character = offset - SetMax(before)
                    /\ offset > Len(context.text) =>
                         position.line = Cardinality(starts) - 1

C20_Witness ==
  /\ Done
  /\ Cardinality(LineStarts(context.text)) >= 3
  /\ \E k \in 1..Len(results) :
       /\ results[k].range.start.line = 1
       /\ results[k].range.start.character = 0
  /\ \E k \in 1..Len(results) : results[k].range.start.character > 0

\* the offset moved into lo..hi
Clamp(offset, lo, hi) == IF offset < lo THEN lo ELSE IF offset > hi THEN hi ELSE offset

\* C21: the range rangeFromNode gives for a node lies in the text, with
\* 0 <= start <= end <= text.length, also when the stored range lies outside the text
\* or ends before it starts; for an absent node or a node without a range it is the
\* empty range at (0,0); a diagnostic is produced in every case.
C21_RangeInsideText ==
  pc # "commands" =>
    LET node == commandSequences[1][1].nameNode
        length == Len(context.text)
    IN /\ Len(results) = 1
       /\ IF Present(node) /\ Len(node.range) >= 2
          THEN \E start \in 0..length, end \in 0..length :
                 /\ start <= end
                 /\ start = Clamp(node.range[1], 0, length)
                 /\ node.range[1] <= node.range[2] => end = Clamp(node.range[2], 0, length)
                 /\ results[1].range
                      = Range(offsetToPosition(start, context.lineOffsets),
                              offsetToPosition(end, context.lineOffsets))
          ELSE results[1].range = OriginRange

C21_Witness ==
  /\ pc = "done"
  /\ Len(context.text) = 2
  /\ context.text[1] = "\n"
  /\ commandSequences[1][1].nameNode.range = <<3, 0 - 1>>
  /\ results[1].range = Range(Position(1, 1), Position(1, 1))


----------------------------------------------------------------------------
(* The handled set belongs to one pass over one sequence. *)

IsSequenceResult(result) == result.message.raw \in SequenceRaws

RECURSIVE AloneFindings(_)
\* what the first n sequences produce when each is checked alone, one after the other
AloneFindings(n) ==
  IF n = 0 THEN <<>>
  ELSE AloneFindings(n - 1) \o SequenceFindings(commandSequences[n], context, {}).results

\* C22: the per-sequence findings of a call are, in sequence order, the findings every
\* sequence produces when it is checked alone with an empty handled set: no mark made
\* in another sequence or in an earlier call suppresses or causes a warning.
C22_SequencesCheckedAlone ==
  SelectSeq(results, IsSequenceResult) = AloneFindings(seqIdx)

\* a second call; its first sequence marks the assertVisible at place 3, and the
\* unmarked assertVisible at place 3 of its second sequence is warned about
C22_Witness ==
  /\ Done
  /\ Len(returned) >= 1
  /\ Len(commandSequences) = 2
  /\ Len(commandSequences[1]) = 3 /\ Len(commandSequences[2]) = 3
  /\ 3 \in SequenceFindings(commandSequences[1], context, {}).handledAsserts
  /\ HasRaw(returned[Len(returned)].results, "AssertVisibleImmediatelyAfterTapOn")
  /\ commandSequences[2][3].name = assertVisible
  /\ ResultsAt({"AssertVisibleWithoutPriorNavigationOrWait"},
               commandSequences[2][3].nameNode) # {}

----------------------------------------------------------------------------
(* The diagnostics the editor shows.                                       *)

DocumentOf(uri) == TextDocument(uri, textDocuments[uri])

\* the last event of the document was an open or a change, and it was a Maestro file then
ValidatedAtLastEvent(uri) ==
  /\ textDocuments[uri].last \in {"open", "change"}
  /\ isMaestroFile(DocumentOf(uri))

\* C23: after any open, change and close events, when the last event of a document was
\* an open or a change and the document is a Maestro file, its entry in the diagnostic
\* collection is the mapping of validateMaestroFlow(current text): one diagnostic for
\* every result, in the same order, with the range and message of the result, severity
\* Error for level error and Warning otherwise; nothing of earlier texts is left.
C23_EntryIsMappedValidation ==
  \A uri \in EditorUris :
    ValidatedAtLastEvent(uri) =>
      LET expected == validateMaestroFlow(textDocuments[uri].text,
                                          textDocuments[uri].documents, uri)
          entry == diagnosticCollection[uri]
      IN /\ entry.present
         /\ Len(entry.diagnostics) = Len(expected)
         /\ \A k \in 1..Len(expected) :
              /\ entry.diagnostics[k].range = expected[k].range
              /\ entry.diagnostics[k].message = expected[k].message
              /\ entry.diagnostics[k].severity =
                   (IF expected[k].level = "error" THEN "Error" ELSE "Warning")

\* main.yaml was changed to a text with a leading appId line, an unknown command and an
\* assertVisible: an Error and a Warning, in this order; the .FLOW file holds a flow
\* without findings and has an entry with no diagnostic
C23_Witness ==
  /\ textDocuments[FileUri].last = "change"
  /\ startsWith(textDocuments[FileUri].text, <<"a", "p", "p", "I", "d", ":">>)
  /\ diagnosticCollection[FileUri].present
  /\ Len(diagnosticCollection[FileUri].diagnostics) = 2
  /\ diagnosticCollection[FileUri].diagnostics[1].severity = "Error"
  /\ diagnosticCollection[FileUri].diagnostics[1].message.raw = "UnknownCommand"
  /\ diagnosticCollection[FileUri].diagnostics[2].severity = "Warning"
  /\ textDocuments[FlowUri].last = "open"
  /\ diagnosticCollection[FlowUri] = Entry(<<>>)

\* C24: after any open, change and close events the diagnostic collection holds no
\* entry for a document whose last event was a close, and none for a document that was
\* not a Maestro file at its last open or change event.
C24_NoEntryWhenClosedOrNotMaestro ==
  \A uri \in EditorUris :
    \/ textDocuments[uri].last = "close"
    \/ /\ textDocuments[uri].last \in {"open", "change"}
       /\ ~isMaestroFile(DocumentOf(uri))
    => ~diagnosticCollection[uri].present

\* main.yaml was changed to a text without a leading appId line and has no entry,
\* the .FLOW file was closed and has none, b.maestro.yml is open and has one
C24_Witness ==
  /\ textDocuments[FileUri].last = "change"
  /\ ~startsWith(textDocuments[FileUri].text, <<"a", "p", "p", "I", "d", ":">>)
  /\ ~AllWhiteSpace(textDocuments[FileUri].text)
  /\ ~diagnosticCollection[FileUri].present
  /\ textDocuments[FlowUri].last = "close"
  /\ ~diagnosticCollection[FlowUri].present
  /\ textDocuments[MaestroYmlUri].open
  /\ diagnosticCollection[MaestroYmlUri].present

----------------------------------------------------------------------------
(* Per-command rules.                                                      *)

IsCommandResult(result) == result.message.raw \in CommandRaws

\* the commands of the sequences in which some per-command rule finds something
CommandsWithFinding ==
  {slot \in Slots : Len(CommandFindings(CommandAt(slot), context)) > 0}

\* C25: every discovered command contributes at most one per-command diagnostic: the
\* tapOn, inputText, conditional, runFlow and takeScreenshot rules each report on their
\* own name only, these names are known, the unknown-command rule reports on unknown
\* names only, and a call holds at most as many per-command diagnostics as commands.
C25_OnePerCommandDiagnostic ==
  /\ {tapOn, inputText, conditional, runFlow, takeScreenshot} \subseteq KNOWN_COMMANDS
  /\ \A slot \in Slots :
       LET command == CommandAt(slot)
       IN /\ Len(CommandFindings(command, context)) <= 1
          /\ Len(validateTapOnSelector(command, context)) > 0 => command.name = tapOn
          /\ Len(validateInputTextValue(command, context)) > 0 => command.name = inputText
          /\ Len(validateConditionalHasCommands(command, context)) > 0
               => command.name = conditional
          /\ Len(validateRunFlowFileExists(command, context)) > 0 => command.name = runFlow
          /\ Len(validateTakeScreenshotHasName(command, context)) > 0
               => command.name = takeScreenshot
          /\ Len(validateUnknownCommandName(command, context)) > 0
               => command.name \notin KNOWN_COMMANDS
  /\ Len(SelectSeq(results, IsCommandResult)) <= cmdIdx
  /\ Done => Len(SelectSeq(results, IsCommandResult)) = Cardinality(CommandsWithFinding)

\* three commands: a tapOn without selector and an unknown name, each with its one
\* diagnostic, and a tapOn with a selector, which has none
C25_Witness ==
  /\ Done
  /\ Len(commandSequences) = 1
  /\ Len(commandSequences[1]) = 3
  /\ commandSequences[1][1].name = tapOn
  /\ Len(validateTapOnSelector(commandSequences[1][1], context)) = 1
  /\ commandSequences[1][2].name \notin KNOWN_COMMANDS
  /\ commandSequences[1][3].name = tapOn
  /\ Len(CommandFindings(commandSequences[1][3], context)) = 0
  /\ Len(SelectSeq(results, IsCommandResult)) = 2

----------------------------------------------------------------------------
(* The two assertVisible rules.                                            *)

\* the marks validateAssertVisibleImmediatelyAfterTapOn leaves on a sequence
MarksOf(sequence) ==
  validateAssertVisibleImmediatelyAfterTapOn(sequence, context, {}).handledAsserts

\* C26: the handled marks never change the output: on every sequence
\* validateAssertVisibleHasPriorNavigationOrWait returns the same findings with the
\* marks of the immediately-after-tapOn rule as with no mark, since every marked
\* assertVisible directly follows a tapOn, a navigation-or-wait command.
C26_MarksDoNotChangeFindings ==
  \A s \in 1..Len(commandSequences) :
    LET sequence == commandSequences[s]
    IN /\ validateAssertVisibleHasPriorNavigationOrWait(sequence, context, MarksOf(sequence))
            = validateAssertVisibleHasPriorNavigationOrWait(sequence, context, {})
       /\ \A i \in MarksOf(sequence) :
            /\ i > 1
            /\ sequence[i].name = assertVisible
            /\ sequence[i - 1].name = tapOn
            /\ sequence[i - 1].name \in NAV_OR_WAIT_COMMANDS

\* assertVisible, tapOn, assertVisible: the third command is marked, the first is
\* reported by the second rule
C26_Witness ==
  /\ Done
  /\ Len(commandSequences) = 1
  /\ Len(commandSequences[1]) = 3
  /\ MarksOf(commandSequences[1]) = {3}
  /\ commandSequences[1][1].name = assertVisible
  /\ Len(validateAssertVisibleHasPriorNavigationOrWait(
           commandSequences[1], context, MarksOf(commandSequences[1]))) = 1
  /\ HasRaw(results, "AssertVisibleImmediatelyAfterTapOn")
  /\ HasRaw(results, "AssertVisibleWithoutPriorNavigationOrWait")

WithoutPrior == {"AssertVisibleWithoutPriorNavigationOrWait"}

\* a navigation-or-wait command stands somewhere before this command in its sequence
AfterNavOrWait(slot) ==
  \E k \in 1..(slot[2] - 1) : commandSequences[slot[1]][k].name \in NAV_OR_WAIT_COMMANDS

\* C27: in every sequence the warning `without a prior navigation or wait` is only on
\* assertVisible commands before the first navigation-or-wait command: an assertVisible
\* at any place after a navigation-or-wait command has none, however many commands lie
\* between the two.
C27_NoWarningAfterNavOrWait ==
  Done =>
    /\ \A slot \in Slots :
         AfterNavOrWait(slot) => ResultsAt(WithoutPrior, CommandAt(slot).nameNode) = {}
    /\ \A k \in ResultsWith(WithoutPrior) :
         \E slot \in Slots :
           /\ CommandAt(slot).name = assertVisible
           /\ ~AfterNavOrWait(slot)
           /\ k \in ResultsAt(WithoutPrior, CommandAt(slot).nameNode)

\* launchApp, hideKeyboard, assertVisible: the assertion is two places after the
\* navigation and is not warned about
C27_Witness ==
  /\ Done
  /\ Len(commandSequences) = 1
  /\ Len(commandSequences[1]) = 3
  /\ commandSequences[1][1].name = launchApp
  /\ commandSequences[1][2].name \notin NAV_OR_WAIT_COMMANDS
  /\ commandSequences[1][3].name = assertVisible
  /\ ResultsWith(WithoutPrior) = {}

----------------------------------------------------------------------------
(* List items that name no command.                                        *)

IsNonStringScalar(node) == isScalar(node) /\ node.value.type # "string"

\* a number, a boolean or null, or a mapping whose first key is one
IsNonCommandItem(item) ==
  \/ IsNonStringScalar(item)
  \/ isMap(item) /\ Len(item.items) > 0 /\ IsNonStringScalar(item.items[1].key)

\* the nodes of such an item: the item, and the first key and value of a mapping
NodesOfItem(item) ==
  {item} \cup (IF isMap(item) THEN {item.items[1].key, item.items[1].value} ELSE {})

\* the items of the top-level lists of the file
ListItems ==
  {<<d, i>> \in (1..Len(documents)) \X (1..Len(context.text)) :
     isSeq(documents[d].contents) /\ i <= Len(documents[d].contents.items)}
ItemAt(place) == documents[place[1]].contents.items[place[2]]

\* every document of the file is a list of one or more such items
OnlyNonCommandItems ==
  /\ Len(documents) > 0
  /\ \A d \in 1..Len(documents) :
       /\ isSeq(documents[d].contents)
       /\ Len(documents[d].contents.items) > 0
  /\ \A place \in ListItems : IsNonCommandItem(ItemAt(place))

\* C28: a list item that is a number, a boolean or null, or a mapping whose first key
\* is one, yields no command and no diagnostic of any rule, not even an unknown-command
\* error; a file whose lists hold only such items is reported as having no commands.
C28_NonStringItemsAreNoCommands ==
  Done =>
    /\ \A place \in ListItems :
         IsNonCommandItem(ItemAt(place)) =>
           /\ \A slot \in Slots : CommandAt(slot).nameNode \notin NodesOfItem(ItemAt(place))
           /\ \A k \in 1..Len(results), node \in NodesOfItem(ItemAt(place)) :
                results[k].range # rangeFromNode(node, context)
    /\ OnlyNonCommandItems =>
         /\ Len(allCommands) = 0
         /\ Len(results) = 1 + CountParseErrors(documents, 1)
         /\ results[Len(results)].message.raw = "NoCommandsFound"
         /\ results[Len(results)].level = "error"

\* the list 42, true, ~, {42: a}, {true: tapOn}: one error, no commands found
C28_Witness ==
  /\ Done
  /\ OnlyNonCommandItems
  /\ Len(documents) = 1
  /\ Len(documents[1].contents.items) = 5
  /\ \E i, j, k \in 1..5 :
       /\ ItemAt(<<1, i>>).value.type = "number"
       /\ ItemAt(<<1, j>>).value.type = "boolean"
       /\ ItemAt(<<1, k>>).value.type = "null"
  /\ isMap(ItemAt(<<1, 5>>))
  /\ Len(results) = 1
  /\ results[1].message.raw = "NoCommandsFound"
============================================================================
